---- MODULE Spec2Model ----
(***************************************************************************)
(* Model of the lead-generation pipeline of main.py and                   *)
(* company_extractor.py: the per-URL extraction loop, the intra-run        *)
(* duplicate check, classify_company, and the two-stage (analysis, then    *)
(* review) workflow of analyze_company with parse_analysis_results.        *)
(*                                                                         *)
(* Python strings are sequences of one-character strings, so that strip,   *)
(* lower, startswith, split and the regular expressions of the source are  *)
(* computed character by character.                                        *)
(***************************************************************************)
EXTENDS Integers, Sequences, FiniteSets, TLC

(***************************************************************************)
(* Characters and the str methods the source uses                          *)
(***************************************************************************)
LowerLetters == <<"a","b","c","d","e","f","g","h","i","j","k","l","m",
                  "n","o","p","q","r","s","t","u","v","w","x","y","z">>

UpperLetters == <<"A","B","C","D","E","F","G","H","I","J","K","L","M",
                  "N","O","P","Q","R","S","T","U","V","W","X","Y","Z">>

Digits == {"0","1","2","3","4","5","6","7","8","9"}

\* str.isspace characters that occur in the modelled texts
Whitespace == {" ", "\n", "\t", "\r"}

Range(s) == {s[k] : k \in DOMAIN s}

Letters == Range(LowerLetters) \cup Range(UpperLetters)

\* the regular expression class \w (letters, digits, underscore)
IsWordChar(c) == c \in Letters \cup Digits \cup {"_"}

LowerChar(c) ==
    IF c \in Range(UpperLetters)
    THEN LowerLetters[CHOOSE k \in DOMAIN UpperLetters : UpperLetters[k] = c]
    ELSE c

UpperChar(c) ==
    IF c \in Range(LowerLetters)
    THEN UpperLetters[CHOOSE k \in DOMAIN LowerLetters : LowerLetters[k] = c]
    ELSE c

\* str.lower()
Lower(s) == [k \in DOMAIN s |-> LowerChar(s[k])]

\* str.upper()
Upper(s) == [k \in DOMAIN s |-> UpperChar(s[k])]

\* s[a-1 : b] in Python terms: the characters at 1-based positions a..b
Slice(s, a, b) == [k \in 1..(b - a + 1) |-> s[a + k - 1]]

\* s[n:] in Python terms
DropFirst(s, n) == Slice(s, n + 1, Len(s))

\* does p occur in s at 1-based position k
MatchAt(s, p, k) ==
    /\ k >= 1
    /\ k + Len(p) - 1 <= Len(s)
    /\ \A m \in 1..Len(p) : s[k + m - 1] = p[m]

\* str.startswith(p)
StartsWith(s, p) == MatchAt(s, p, 1)

\* str.endswith(p)
EndsWith(s, p) == MatchAt(s, p, Len(s) - Len(p) + 1)

\* the positions at which p occurs in s
Occurrences(s, p) == {k \in 1..(Len(s) + 1) : MatchAt(s, p, k)}

\* p in s
Contains(s, p) == Occurrences(s, p) # {}

Min(S) == CHOOSE x \in S : \A y \in S : x <= y

Max(S) == CHOOSE x \in S : \A y \in S : x >= y

\* str.find(p) + 1, and 0 when p does not occur
Find(s, p) == IF Contains(s, p) THEN Min(Occurrences(s, p)) ELSE 0

\* str.strip(): drop leading and trailing whitespace
Strip(s) ==
    LET keep == {k \in DOMAIN s : s[k] \notin Whitespace}
    IN  IF keep = {} THEN <<>> ELSE Slice(s, Min(keep), Max(keep))

\* str.split(sep, 1)[1] for a separator that occurs in s
AfterFirst(s, sep) == DropFirst(s, Find(s, sep) + Len(sep) - 1)

\* str.split(sep, 1)[0]
BeforeFirst(s, sep) == IF Contains(s, sep) THEN Slice(s, 1, Find(s, sep) - 1) ELSE s

(***************************************************************************)
(* Deduplication key, generic names and classify_company (main.py)         *)
(***************************************************************************)
\* 'www.'
WwwPrefix == <<"w","w","w",".">>

\* '/'
Slash == <<"/">>

\* 'http'
HttpPrefix == <<"h","t","t","p">>

\* the key under which main.py remembers a website in processed_websites_this_run
NormalizeWebsite(company_website) ==
    LET lowered  == Lower(Strip(company_website))
        no_www   == IF StartsWith(lowered, WwwPrefix) THEN DropFirst(lowered, 4) ELSE lowered
    IN  IF EndsWith(no_www, Slash) THEN Slice(no_www, 1, Len(no_www) - 1) ELSE no_www

\* Config.GENERIC_COMPANY_NAMES
GENERIC_COMPANY_NAMES ==
    { <<"c","o","m","p","a","n","y">>, <<"o","r","g","a","n","i","z","a","t","i","o","n">>, <<"t","h","e"," ","f","i","r","m">>, <<"c","l","i","e","n","t">>, <<"e","x","a","m","p","l","e">>,
      <<"t","e","s","t">>, <<"n","o","n","e">>, <<"n","/","a">>, <<"w","e","b","s","i","t","e">>, <<"u","r","l">> }

\* a variant of IsGenericName that looks the name up as written;
\* C15_GenericNameNotAnalyzed does not hold of it
IsListedName(company_name) == company_name \in GENERIC_COMPANY_NAMES

\* company_name.lower() in Config.GENERIC_COMPANY_NAMES
IsGenericName(company_name) == Lower(company_name) \in GENERIC_COMPANY_NAMES

\* hr_keywords of classify_company
hr_keywords ==
    { <<"h","r","-">>, <<"h","u","m","a","n","-","r","e","s","o","u","r","c","e","s">>, <<"r","e","c","r","u","i","t","i","n","g">>, <<"p","a","y","r","o","l","l">>, <<"b","e","n","e","f","i","t","s">>,
      <<"t","a","l","e","n","t","-","a","c","q","u","i","s","i","t","i","o","n">>, <<"h","r","t","e","c","h">>, <<"h","c","m">>, <<"a","p","p","l","i","c","a","n","t","-","t","r","a","c","k","i","n","g">> }

\* a variant of classify_company that scans the source URL as written, not
\* lower-cased; C11_ClassifiedBySource does not hold of it
classify_as_written(company_name, company_website, source_url) ==
    IF \E keyword \in hr_keywords : Contains(source_url, keyword)
    THEN "HR"
    ELSE "NE_B2B"

\* main.py lines 102-120
classify_company(company_name, company_website, source_url) ==
    LET source_lower == Lower(source_url)
    IN  IF \E keyword \in hr_keywords : Contains(source_lower, keyword)
        THEN "HR"
        ELSE "NE_B2B"

(***************************************************************************)
(* parse_company_website_list (company_extractor.py).  The agent output is *)
(* represented by the value ast.literal_eval gives for it: kind "list"     *)
(* with its items, kind "other" for a literal that is no list, and kind    *)
(* "error" for text literal_eval raises on.  An item is a dict whose       *)
(* 'name' and 'website' are strings or not, or something that is no dict.  *)
(***************************************************************************)
\* a Python str value / a value that is no str (None, a number, ...)
PyStr(s) == [isStr |-> TRUE, s |-> s]

PyNotStr == [isStr |-> FALSE, s |-> <<>>]

DictItem(name, website) == [isDict |-> TRUE, name |-> name, website |-> website]

NotADict == [isDict |-> FALSE, name |-> PyNotStr, website |-> PyNotStr]

ListLiteral(items) == [kind |-> "list", items |-> items]

NonListLiteral == [kind |-> "other", items |-> <<>>]

NotALiteral == [kind |-> "error", items |-> <<>>]

\* the condition of company_extractor.py line 45
ValidCompanyItem(item) ==
    /\ item.isDict
    /\ item.name.isStr
    /\ item.website.isStr
    /\ Strip(item.name.s) # <<>>
    /\ StartsWith(Strip(item.website.s), HttpPrefix)
    /\ 1 < Len(item.name.s)
    /\ Len(item.name.s) < 60

RECURSIVE CollectCompanies(_)
CollectCompanies(items) ==
    IF items = <<>> THEN <<>>
    ELSE LET item == Head(items)
             rest == CollectCompanies(Tail(items))
         IN  IF ValidCompanyItem(item)
             THEN <<[name |-> Strip(item.name.s), website |-> Strip(item.website.s)]>> \o rest
             ELSE rest

parse_company_website_list(agent_output) ==
    IF agent_output.kind = "list"
    THEN CollectCompanies(agent_output.items)
    ELSE <<>>

(***************************************************************************)
(* The texts the collaborators give in the model                           *)
(***************************************************************************)
TextEmailAndPoints == <<"E","m","a","i","l",":"," ","i","@","a",".","c","o","\n","P","a","i","n"," ","P","o","i","n","t","s",":"," ","s","l","o","w"," ","h","i","r","i","n","g">>

TextPoints == <<"P","a","i","n"," ","P","o","i","n","t","s",":"," ","s","l","o","w"," ","h","i","r","i","n","g">>

TextRefined == <<"C","h","a","l","l","e","n","g","e","s",":","\n","-"," ","h","i","g","h"," ","c","h","u","r","n","\n","E","m","a","i","l",":"," ","x","@","b",".","i","o">>

TextBlank == <<" ">>

TextSkipped == <<"A","n","a","l","y","s","i","s"," ","s","k","i","p","p","e","d"," ","-"," ","n","o"," ","s","i","t","e">>

TextFailed == <<"A","n","a","l","y","s","i","s"," ","f","a","i","l","e","d"," ","-"," ","t","o","o","l"," ","e","r","r","o","r">>

\* the texts an analysis or a review may give
ModelTexts ==
    {TextEmailAndPoints, TextPoints, TextRefined, TextBlank, TextSkipped, TextFailed}

(***************************************************************************)
(* parse_analysis_results (company_extractor.py)                           *)
(***************************************************************************)
\* "FINAL ANSWER:"
FinalAnswerPrefix == <<"F","I","N","A","L"," ","A","N","S","W","E","R",":">>

\* ":"
Colon == <<":">>

\* lines 78-79: drop a leading "FINAL ANSWER:" label
StripFinalAnswer(result) ==
    IF StartsWith(Upper(Strip(result)), FinalAnswerPrefix)
    THEN Strip(AfterFirst(result, Colon))
    ELSE result

\* the regular expression assertion \b before 1-based position k
WordBoundary(s, k) ==
    LET before == k > 1 /\ k - 1 <= Len(s) /\ IsWordChar(s[k - 1])
        after  == k >= 1 /\ k <= Len(s) /\ IsWordChar(s[k])
    IN  before # after

\* the class [A-Za-z0-9._%+-]
EmailLocalChars == Letters \cup Digits \cup {".", "_", "%", "+", "-"}

\* the class [A-Za-z0-9.-]
EmailDomainChars == Letters \cup Digits \cup {".", "-"}

\* the class [A-Z|a-z]
EmailTldChars == Letters \cup {"|"}

\* the last position of the maximal run of characters of the class that
\* starts at k (k - 1 when s[k] is not in the class)
RECURSIVE RunEnd(_, _, _)
RunEnd(s, k, class) ==
    IF k <= Len(s) /\ s[k] \in class THEN RunEnd(s, k + 1, class) ELSE k - 1

\* The last position of the match of
\*   \b[A-Za-z0-9._%+-]+@[A-Za-z0-9.-]+\.[A-Z|a-z]{2,7}\b
\* that starts at position k, and 0 when there is none.  The local part is
\* the whole run before "@"; the domain is cut at the last "." that leaves
\* two to seven closing characters ending on a word boundary, the longest
\* such closing first (greedy matching with backtracking).
EmailEndAt(s, k) ==
    LET local_end == RunEnd(s, k, EmailLocalChars)
        dom_start == local_end + 2
        dom_end   == RunEnd(s, dom_start, EmailDomainChars)
        ends(d)   == {d + 1 + n : n \in {m \in 2..7 :
                          /\ d + 1 + m <= Len(s)
                          /\ \A q \in (d + 2)..(d + 1 + m) : s[q] \in EmailTldChars
                          /\ WordBoundary(s, d + 2 + m)}}
        cuts      == {d \in dom_start..(dom_end - 1) : s[d + 1] = "." /\ ends(d) # {}}
    IN  IF /\ WordBoundary(s, k)
           /\ local_end >= k
           /\ local_end + 1 <= Len(s)
           /\ s[local_end + 1] = "@"
           /\ cuts # {}
        THEN Max(ends(Max(cuts)))
        ELSE 0

\* re.findall of the e-mail pattern: the matches from position k on, left
\* to right; EmailMatchesNext is given the end e of the match at k (0: none)
RECURSIVE EmailMatchesFrom(_, _), EmailMatchesNext(_, _, _)
EmailMatchesFrom(s, k) ==
    IF k > Len(s) THEN <<>> ELSE EmailMatchesNext(s, k, EmailEndAt(s, k))

EmailMatchesNext(s, k, e) ==
    IF e = 0 THEN EmailMatchesFrom(s, k + 1)
    ELSE <<Slice(s, k, e)>> \o EmailMatchesFrom(s, e + 1)

\* the placeholder tokens of line 88
InvalidEmailTokens ==
    { <<"e","x","a","m","p","l","e",".","c","o","m">>, <<"t","e","s","t">>, <<"e","r","r","o","r">>, <<"y","o","u","r","d","o","m","a","i","n",".","c","o","m">>, <<"e","m","a","i","l","@">>, <<"s","e","n","t","r","y",".","i","o">> }

\* "@"
AtSign == <<"@">>

\* "."
Dot == <<".">>

\* the text after the last "@": e.split('@')[-1]
AfterLastAt(e) ==
    IF Contains(e, AtSign) THEN DropFirst(e, Max(Occurrences(e, AtSign))) ELSE e

\* a variant of ValidEmail without the placeholder tokens;
\* C23_FirstValidEmail does not hold of it
ValidEmailAnyName(e) ==
    /\ Contains(e, AtSign)
    /\ Contains(AfterLastAt(e), Dot)

\* the filter of lines 87-88
ValidEmail(e) ==
    /\ Contains(e, AtSign)
    /\ Contains(AfterLastAt(e), Dot)
    /\ ~ \E invalid \in InvalidEmailTokens : Contains(Lower(e), invalid)

\* lines 90-91: valid_emails[0], or the empty string
FirstOrEmpty(valid_emails) ==
    IF valid_emails # <<>> THEN valid_emails[1] ELSE <<>>

\* lines 86-91: the first valid e-mail of the text, or the empty string
FirstValidEmail(result) ==
    FirstOrEmpty(SelectSeq(EmailMatchesFrom(result, 1), ValidEmail))

\* the labels of pain_pattern, lower-cased, in the order in which the
\* pattern tries them at one position: the alternatives left to right, the
\* optional "s" first
PainLabels ==
    << <<"p","a","i","n"," ","p","o","i","n","t","s">>, <<"p","a","i","n"," ","p","o","i","n","t">>, <<"c","h","a","l","l","e","n","g","e","s">>, <<"c","h","a","l","l","e","n","g","e">>,
       <<"i","s","s","u","e","s">>, <<"i","s","s","u","e">>, <<"a","n","a","l","y","s","i","s">>, <<"o","p","p","o","r","t","u","n","i","t","i","e","s">> >>

\* the labels that end the section: Email:, Contact:, Conclusion:
PainTerminators == { <<"e","m","a","i","l",":">>, <<"c","o","n","t","a","c","t",":">>, <<"c","o","n","c","l","u","s","i","o","n",":">> }

\* The last position of (?:\s*:|\s*\n) matched from position k, and 0 when
\* it does not match: the whitespace run and a colon, or else the whitespace
\* run up to its last newline.
SeparatorEndAt(s, k) ==
    LET ws_end   == RunEnd(s, k, Whitespace)
        newlines == {q \in k..ws_end : s[q] = "\n"}
    IN  IF ws_end + 1 <= Len(s) /\ s[ws_end + 1] = ":" THEN ws_end + 1
        ELSE IF newlines # {} THEN Max(newlines)
        ELSE 0

\* The last position of label and separator matched at position k, ignoring
\* case, and 0 when no label matches there.
LabelEndAt(s, k) ==
    LET low     == Lower(s)
        fits(n) == /\ MatchAt(low, PainLabels[n], k)
                   /\ SeparatorEndAt(s, k + Len(PainLabels[n])) # 0
        fitting == {n \in DOMAIN PainLabels : fits(n)}
    IN  IF fitting = {} THEN 0
        ELSE SeparatorEndAt(s, k + Len(PainLabels[Min(fitting)]))

\* re.findall(pain_pattern, result, IGNORECASE | DOTALL): whether the pattern
\* matches, and the body of its first match: from the end of the leftmost
\* label to the first terminator, or to the end of the text.
PainStarts(s) == {k \in DOMAIN s : LabelEndAt(s, k) # 0}

\* the body that starts at position start
PainBodyFrom(s, start) ==
    LET low   == Lower(s)
        stops == {q \in start..Len(s) : \E t \in PainTerminators : MatchAt(low, t, q)}
        stop  == IF stops = {} THEN Len(s) + 1 ELSE Min(stops)
    IN  Slice(s, start, stop - 1)

FirstPainBody(s) == PainBodyFrom(s, LabelEndAt(s, Min(PainStarts(s))) + 1)

\* the class [\s*-]
MarkupChars == Whitespace \cup {"*", "-"}

\* re.sub(r'^[\s*-]+', '', s, flags=re.MULTILINE): at every line start drop
\* the run of whitespace, "*" and "-".  removing says that position k
\* continues such a run or starts a line.
RECURSIVE StripMarkupFrom(_, _, _)
StripMarkupFrom(s, k, removing) ==
    IF k > Len(s) THEN <<>>
    ELSE IF removing /\ s[k] \in MarkupChars
         THEN StripMarkupFrom(s, k + 1, TRUE)
         ELSE <<s[k]>> \o StripMarkupFrom(s, k + 1, s[k] = "\n")

StripLineMarkup(s) == StripMarkupFrom(s, 1, TRUE)

\* re.sub of a leading label and separator (line 103)
StripLeadingLabel(s) ==
    IF LabelEndAt(s, 1) # 0 THEN DropFirst(s, LabelEndAt(s, 1)) ELSE s

\* str.replace(p, ""): drop every occurrence of p, left to right
RECURSIVE RemoveAll(_, _)
RemoveAll(s, p) ==
    IF p = <<>> \/ ~Contains(s, p) THEN s
    ELSE Slice(s, 1, Find(s, p) - 1) \o RemoveAll(DropFirst(s, Find(s, p) + Len(p) - 1), p)

\* "No specific pain points identified in the output."
NoPainPointsSentinel == <<"N","o"," ","s","p","e","c","i","f","i","c"," ","p","a","i","n"," ","p","o","i","n","t","s"," ","i","d","e","n","t","i","f","i","e","d"," ","i","n"," ","t","h","e"," ","o","u","t","p","u","t",".">>

\* "Analysis failed - non-string result"
NonStringResult == <<"A","n","a","l","y","s","i","s"," ","f","a","i","l","e","d"," ","-"," ","n","o","n","-","s","t","r","i","n","g"," ","r","e","s","u","l","t">>

\* lines 108-110: pain points that are the e-mail alone are dropped
DropLoneEmail(email, pain_points) ==
    IF email # <<>> /\ pain_points = email THEN <<>> ELSE pain_points

\* lines 93-110: the pain points before the empty-text fallback
ExtractPainPoints(result, email) ==
    IF PainStarts(result) # {}
    THEN Strip(StripLineMarkup(Strip(FirstPainBody(result))))
    ELSE DropLoneEmail(email,
             IF email # <<>> /\ Contains(result, email)
             THEN Strip(StripLineMarkup(Strip(StripLeadingLabel(
                      Strip(AfterFirst(result, email))))))
             ELSE Strip(result))

\* lines 115-118: the residual text when it is longer than 10, else the sentinel
ResidualOrSentinel(text_without_email) ==
    IF text_without_email # <<>> /\ Len(text_without_email) > 10
    THEN text_without_email
    ELSE NoPainPointsSentinel

\* lines 112-118: residual text or sentinel in place of empty pain points
FillEmptyPainPoints(result, email, pain_points) ==
    IF Strip(pain_points) # <<>> THEN pain_points
    ELSE ResidualOrSentinel(IF email # <<>> THEN Strip(RemoveAll(result, email))
                            ELSE Strip(result))

\* lines 93-121: the result for a text and the e-mail found in it
ParseWithEmail(text, email) ==
    [email |-> email,
     pain_points |-> FillEmptyPainPoints(text, email, ExtractPainPoints(text, email))]

\* lines 81-121: the result for a text without its "FINAL ANSWER:" label
ParseStripped(text) == ParseWithEmail(text, FirstValidEmail(text))

\* lines 77-121: parse_analysis_results on a str
ParseText(result) == ParseStripped(StripFinalAnswer(result))

\* ParseText of the model's texts, computed once
ParsedModelTexts == [text \in ModelTexts |-> ParseText(text)]

\* parse_analysis_results on a str (result.isStr) or on any other value
parse_analysis_results(result) ==
    IF ~result.isStr
    THEN [email |-> <<>>, pain_points |-> NonStringResult]
    ELSE IF result.s \in ModelTexts THEN ParsedModelTexts[result.s]
    ELSE ParseText(result.s)


(***************************************************************************)
(* parse_url_list (url_processor.py).  The agent output is a Python value: *)
(* PyStr(text) with the text as characters, or PyNotStr.                   *)
(***************************************************************************)
\* the result of reading the items of a list display
ParsedItems(ok, items) == [ok |-> ok, items |-> items]

NoItems == ParsedItems(FALSE, <<>>)

PrependItem(item, parsed) ==
    IF parsed.ok THEN ParsedItems(TRUE, <<item>> \o parsed.items) ELSE parsed

\* the number of digits s begins with
RECURSIVE LeadingDigits(_)
LeadingDigits(s) ==
    IF s # <<>> /\ Head(s) \in Digits THEN 1 + LeadingDigits(Tail(s)) ELSE 0

\* ast.literal_eval (url_processor.py line 40) for the texts of the model:
\* a list display of single-quoted strings and integers separated by ", ",
\* a single-quoted string or an integer; it raises on every other text.
RECURSIVE ListItems(_)
ItemThenRest(item, rest) ==
    IF rest = <<>> THEN ParsedItems(TRUE, <<item>>)
    ELSE IF StartsWith(rest, <<","," ">>) THEN PrependItem(item, ListItems(DropFirst(rest, 2)))
    ELSE NoItems

\* closing is the position of the closing quote in body[2:], or 0
StrItem(body, closing) ==
    IF closing = 0 THEN NoItems
    ELSE ItemThenRest(PyStr(Slice(body, 2, closing)), DropFirst(body, closing + 1))

\* the pairs of a dict display: 'key': value, separated by ", ", where a
\* value is a single-quoted string or an integer
RECURSIVE DictPairs(_)
PairThenRest(pair, rest) ==
    IF rest = <<>> THEN ParsedItems(TRUE, <<pair>>)
    ELSE IF StartsWith(rest, <<","," ">>) THEN PrependItem(pair, DictPairs(DropFirst(rest, 2)))
    ELSE NoItems

\* closing is the position of the closing quote in text[2:], or 0
PairValue(key, text, closing) ==
    IF text = <<>> THEN NoItems
    ELSE IF Head(text) = "'"
    THEN IF closing = 0 THEN NoItems
         ELSE PairThenRest([key |-> key, value |-> PyStr(Slice(text, 2, closing))],
                           DropFirst(text, closing + 1))
    ELSE IF Head(text) \in Digits
    THEN PairThenRest([key |-> key, value |-> PyNotStr], DropFirst(text, LeadingDigits(text)))
    ELSE NoItems

ValueAfterColon(key, text) == PairValue(key, text, Find(DropFirst(text, 1), <<"'">>))

PairAfterKey(key, rest) ==
    IF StartsWith(rest, <<":"," ">>) THEN ValueAfterColon(key, DropFirst(rest, 2)) ELSE NoItems

KeyAt(inner, closing) ==
    IF closing = 0 THEN NoItems
    ELSE PairAfterKey(Slice(inner, 2, closing), DropFirst(inner, closing + 1))

DictPairs(inner) ==
    IF inner # <<>> /\ Head(inner) = "'" THEN KeyAt(inner, Find(DropFirst(inner, 1), <<"'">>))
    ELSE NoItems

\* item.get(key): the value of the last pair with the key, None without one
DictGet(pairs, key) ==
    IF \E k \in DOMAIN pairs : pairs[k].key = key
    THEN pairs[Max({k \in DOMAIN pairs : pairs[k].key = key})].value
    ELSE PyNotStr

\* a dict is kept as what parse_company_website_list reads of it
DictThenRest(pairs, rest) ==
    IF pairs.ok
    THEN ItemThenRest(DictItem(DictGet(pairs.items, <<"n","a","m","e">>), DictGet(pairs.items, <<"w","e","b","s","i","t","e">>)),
                      rest)
    ELSE NoItems

\* closing is the position of the first "}" in body, or 0
DictAt(body, closing) ==
    IF closing = 0 THEN NoItems
    ELSE DictThenRest(IF closing = 2 THEN ParsedItems(TRUE, <<>>)
                      ELSE DictPairs(Slice(body, 2, closing - 1)),
                      DropFirst(body, closing))

ListItems(body) ==
    IF body = <<>> THEN NoItems
    ELSE IF Head(body) = "'" THEN StrItem(body, Find(Tail(body), <<"'">>))
    ELSE IF Head(body) \in Digits
    THEN ItemThenRest(PyNotStr, DropFirst(body, LeadingDigits(body)))
    ELSE IF Head(body) = "{" THEN DictAt(body, Find(body, <<"}">>))
    ELSE NoItems

ListOf(parsed) == IF parsed.ok THEN ListLiteral(parsed.items) ELSE NotALiteral

EvalStripped(text) ==
    IF text = <<"[","]">> THEN ListLiteral(<<>>)
    ELSE IF Len(text) >= 2 /\ Head(text) = "[" /\ text[Len(text)] = "]"
    THEN ListOf(ListItems(Slice(text, 2, Len(text) - 1)))
    ELSE IF Len(text) >= 2 /\ Head(text) = "'" /\ Find(Tail(text), <<"'">>) = Len(text) - 1
    THEN NonListLiteral
    ELSE IF text # <<>> /\ LeadingDigits(text) = Len(text) THEN NonListLiteral
    ELSE NotALiteral

literal_eval(text) == EvalStripped(Strip(text))

\* isinstance(item, str)
IsStrItem(item) == "isStr" \in DOMAIN item /\ item.isStr

\* line 42: the strings of the list that start with 'http', stripped
RECURSIVE StrictUrls(_)
StrictUrls(items) ==
    IF items = <<>> THEN <<>>
    ELSE IF IsStrItem(Head(items)) /\ StartsWith(Strip(Head(items).s), HttpPrefix)
    THEN <<Strip(Head(items).s)>> \o StrictUrls(Tail(items))
    ELSE StrictUrls(Tail(items))

\* line 49: the characters the class [^\s\'\"\]\[\<\>] excludes
UrlStopChars == Whitespace \cup {"'", "\"", "]", "[", "<", ">"}

\* the last position of the characters of the class from position k on
\* (k - 1 when there is none)
RECURSIVE UrlMatchEnd(_, _)
UrlMatchEnd(s, k) ==
    IF k <= Len(s) /\ s[k] \notin UrlStopChars THEN UrlMatchEnd(s, k + 1) ELSE k - 1

\* the length of https?:// at position k, 0 when it does not match there
SchemeLenAt(s, k) ==
    IF MatchAt(s, <<"h","t","t","p","s",":","/","/">>, k) THEN 8
    ELSE IF MatchAt(s, <<"h","t","t","p",":","/","/">>, k) THEN 7
    ELSE 0

\* re.findall(r'https?://[^\s\'\"\]\[\<\>]+', s) from position k on
RECURSIVE FindAllUrls(_, _)
TakeUrl(s, k, last) == <<Slice(s, k, last)>> \o FindAllUrls(s, last + 1)

UrlOrSkip(s, k, first, last) ==
    IF first > k /\ last >= first THEN TakeUrl(s, k, last) ELSE FindAllUrls(s, k + 1)

UrlAt(s, k, first) == UrlOrSkip(s, k, first, UrlMatchEnd(s, first))

FindAllUrls(s, k) ==
    IF k > Len(s) THEN <<>> ELSE UrlAt(s, k, k + SchemeLenAt(s, k))

\* line 50: url.strip('.,)("')
UrlTrimChars == {".", ",", ")", "(", "\""}

StripChars(s, chars) ==
    LET keep == {k \in DOMAIN s : s[k] \notin chars}
    IN  IF keep = {} THEN <<>> ELSE Slice(s, Min(keep), Max(keep))

TrimUrls(urls) == [k \in DOMAIN urls |-> StripChars(urls[k], UrlTrimChars)]

\* line 52: the extensions of files that are no pages
AssetExtensions ==
    {<<".","p","n","g">>, <<".","j","p","g">>, <<".","j","p","e","g">>, <<".","g","i","f">>, <<".","c","s","s">>, <<".","j","s">>, <<".","s","v","g">>, <<".","w","e","b","p">>, <<".","p","d","f">>}

IsAsset(url) == \E extension \in AssetExtensions : EndsWith(Lower(url), extension)

IsNoAsset(url) == ~IsAsset(url)

\* line 54: list(dict.fromkeys(urls))
RECURSIVE Unique(_, _)
Unique(urls, seen) ==
    IF urls = <<>> THEN <<>>
    ELSE IF Head(urls) \in seen THEN Unique(Tail(urls), seen)
    ELSE <<Head(urls)>> \o Unique(Tail(urls), seen \cup {Head(urls)})

\* lines 48-56: the regex fallback
RegexUrls(text) == Unique(SelectSeq(TrimUrls(FindAllUrls(text, 1)), IsNoAsset), {})

\* lines 37-38: a leading "Final Answer:" is cut off
CleanFinalAnswer(text) ==
    IF StartsWith(Upper(Strip(text)), FinalAnswerPrefix)
    THEN Strip(AfterFirst(text, <<":">>))
    ELSE text

\* lines 40-56: the list ast.literal_eval gives is returned as soon as it
\* is a list; the regex scans the text otherwise
StrictOrRegex(text, potential_list) ==
    IF potential_list.kind = "list" THEN StrictUrls(potential_list.items)
    ELSE RegexUrls(text)

ParseUrlText(text) == StrictOrRegex(text, literal_eval(text))

parse_url_list(agent_output) ==
    IF ~agent_output.isStr THEN <<>>
    ELSE ParseUrlText(CleanFinalAnswer(agent_output.s))

(***************************************************************************)
(* company_extractor.py lines 33-38: the value ast.literal_eval gives for  *)
(* the cleaned text of an extraction                                       *)
(***************************************************************************)
\* the characters the two strip calls of line 35 remove at both ends: the
\* letters of "python" and the backtick, which TLA+ strings cannot hold and
\* no text of the model contains
FenceChars == {"p", "y", "t", "h", "o", "n"}

\* lines 33-35
CleanCompanyText(text) == Strip(StripChars(Strip(CleanFinalAnswer(text)), FenceChars))

\* an item of the list as parse_company_website_list reads it: a dict or not
AsCompanyItem(item) == IF "isDict" \in DOMAIN item THEN item ELSE NotADict

CompanyValue(value) ==
    IF value.kind = "list"
    THEN ListLiteral([k \in DOMAIN value.items |-> AsCompanyItem(value.items[k])])
    ELSE value

CompanyLiteral(text) == CompanyValue(literal_eval(CleanCompanyText(text)))

\* parse_company_website_list on a str
ParseCompanyText(text) == parse_company_website_list(CompanyLiteral(text))
(***************************************************************************)
(* analyze_company (company_extractor.py): the strings it writes           *)
(***************************************************************************)
\* the text of a category ('HR', 'NE_B2B') inside an f-string
CategoryText(category) ==
    CASE category = "HR" -> <<"H","R">>
      [] category = "NE_B2B" -> <<"N","E","_","B","2","B">>
      [] OTHER -> <<"O","t","h","e","r">>

\* lines 207-216: the agent keys of a category ("" for an invalid category)
AnalysisAgentKey(category) ==
    CASE category = "HR" -> "hr_analysis"
      [] category = "NE_B2B" -> "ne_b2b_analysis"
      [] OTHER -> ""

ReviewerAgentKey(category) ==
    CASE category = "HR" -> "hr_reviewer"
      [] category = "NE_B2B" -> "ne_b2b_reviewer"
      [] OTHER -> ""

\* the text of an agent key inside an f-string
AgentKeyText(key) ==
    CASE key = "hr_analysis" -> <<"h","r","_","a","n","a","l","y","s","i","s">>
      [] key = "ne_b2b_analysis" -> <<"n","e","_","b","2","b","_","a","n","a","l","y","s","i","s">>
      [] key = "hr_reviewer" -> <<"h","r","_","r","e","v","i","e","w","e","r">>
      [] key = "ne_b2b_reviewer" -> <<"n","e","_","b","2","b","_","r","e","v","i","e","w","e","r">>
      [] OTHER -> <<"r","e","s","e","a","r","c","h">>

\* "Initial analysis did not run"
InitialAnalysisDidNotRun == <<"I","n","i","t","i","a","l"," ","a","n","a","l","y","s","i","s"," ","d","i","d"," ","n","o","t"," ","r","u","n">>

\* f"Analysis skipped - Invalid category: {category}"
InvalidCategoryMessage(category) ==
    <<"A","n","a","l","y","s","i","s"," ","s","k","i","p","p","e","d"," ","-"," ","I","n","v","a","l","i","d"," ","c","a","t","e","g","o","r","y",":"," ">> \o CategoryText(category)

\* a variant of AgentMissingMessage without the "Analysis skipped" marker;
\* C9_AnalysisFailureRecord does not hold of it
AgentMissingNote(key) ==
    <<"N","o"," ">> \o AgentKeyText(key) \o <<" ","a","g","e","n","t">>

\* f"Analysis skipped - {analysis_agent_key} agent missing"
AgentMissingMessage(key) ==
    <<"A","n","a","l","y","s","i","s"," ","s","k","i","p","p","e","d"," ","-"," ">> \o AgentKeyText(key) \o <<" ","a","g","e","n","t"," ","m","i","s","s","i","n","g">>

\* "Analysis failed - Task creation error"
TaskCreationError == <<"A","n","a","l","y","s","i","s"," ","f","a","i","l","e","d"," ","-"," ","T","a","s","k"," ","c","r","e","a","t","i","o","n"," ","e","r","r","o","r">>

\* "Initial analysis failed: No output object."
NoOutputObject == <<"I","n","i","t","i","a","l"," ","a","n","a","l","y","s","i","s"," ","f","a","i","l","e","d",":"," ","N","o"," ","o","u","t","p","u","t"," ","o","b","j","e","c","t",".">>

\* "Initial analysis failed: Could not extract raw output."
NoRawOutput == <<"I","n","i","t","i","a","l"," ","a","n","a","l","y","s","i","s"," ","f","a","i","l","e","d",":"," ","C","o","u","l","d"," ","n","o","t"," ","e","x","t","r","a","c","t"," ","r","a","w"," ","o","u","t","p","u","t",".">>

\* f"Analysis failed ({category}): Exception - {type(e).__name__}: {str(e)}"
ExceptionMessage(category, exc) ==
    <<"A","n","a","l","y","s","i","s"," ","f","a","i","l","e","d"," ","(">> \o CategoryText(category) \o <<")",":"," ","E","x","c","e","p","t","i","o","n"," ","-"," ">> \o exc

\* "Initial analysis failed"
InitialAnalysisFailedPrefix == <<"I","n","i","t","i","a","l"," ","a","n","a","l","y","s","i","s"," ","f","a","i","l","e","d">>

\* "Analysis failed"
AnalysisFailedPrefix == <<"A","n","a","l","y","s","i","s"," ","f","a","i","l","e","d">>

\* "Analysis skipped"
AnalysisSkippedPrefix == <<"A","n","a","l","y","s","i","s"," ","s","k","i","p","p","e","d">>

(***************************************************************************)
(* What a collaborator call gives back: an exception, or a result object   *)
(* that is None, a CrewOutput with its raw text, a str, or another type.   *)
(***************************************************************************)
Raises(exc) == [raises |-> TRUE, exc |-> exc, type |-> "None", raw |-> <<>>]

Returns(type, raw) == [raises |-> FALSE, exc |-> <<>>, type |-> type, raw |-> raw]

\* `if result_object:`: None and the empty str are false
Truthy(object) ==
    /\ object.type # "None"
    /\ ~(object.type = "str" /\ object.raw = <<>>)

\* lines 279-283 and 332-336: raw_output, the empty sequence standing for
\* None as well as for the empty string (`if raw_output:` treats them alike)
RawOutput(object) ==
    IF object.type \in {"CrewOutput", "str"} THEN object.raw ELSE <<>>

(***************************************************************************)
(* analyze_company, stage by stage.  Each operator gives the frame of the  *)
(* call after the stage:                                                   *)
(*   next     "return", "analysis" (the analysis crew is to be kicked off) *)
(*            "review" (the reviewer is to execute), "raise" (an exception *)
(*            leaves analyze_company)                                      *)
(*   data     final_company_data                                           *)
(*   email, points   initial_email and initial_pain_points                 *)
(*   analysis, review   what happened in the stage (the log line written)  *)
(*   task     the task created for the collaborator that runs next         *)
(***************************************************************************)
Frame(next, data, email, points, analysis, review, task) ==
    [next |-> next, data |-> data, email |-> email, points |-> points,
     analysis |-> analysis, review |-> review, task |-> task]

\* no task: create_analysis_task or create_review_task returned None, or
\* none was asked for
NoTask == [agent |-> "", company_name |-> <<>>, company_website |-> <<>>,
           initial_pain_points |-> <<>>]

\* tasks.py lines 118-182: Task(...) raising makes the function return None
create_analysis_task(company_name, company_website, agent, task_created) ==
    IF task_created
    THEN [agent |-> agent, company_name |-> company_name,
          company_website |-> company_website, initial_pain_points |-> <<>>]
    ELSE NoTask

\* a variant of create_review_task that leaves the initial pain points out of
\* the task; C10_AnalysisThenReview does not hold of it
ReviewTaskWithoutPoints(company_name, company_website, initial_pain_points, agent, task_created) ==
    IF task_created
    THEN [agent |-> agent, company_name |-> company_name,
          company_website |-> company_website, initial_pain_points |-> <<>>]
    ELSE NoTask

\* tasks.py lines 187-256: Task(...) raising makes the function return None
create_review_task(company_name, company_website, initial_pain_points, agent, task_created) ==
    IF task_created
    THEN [agent |-> agent, company_name |-> company_name,
          company_website |-> company_website,
          initial_pain_points |-> initial_pain_points]
    ELSE NoTask

\* lines 196-203
InitialCompanyData(company_name, company_website, category) ==
    [name |-> company_name, website |-> company_website,
     pain_points |-> InitialAnalysisDidNotRun, contact_email |-> <<>>,
     category |-> category]

\* agents.get(key) is an Agent instance
ValidAgent(agents, key) == key \in DOMAIN agents /\ agents[key]

\* lines 196-247: up to the creation of the analysis task.  task_created is
\* whether Task(...) succeeded in create_analysis_task (which returns None
\* when it raises).
AnalyzeStart(company_name, company_website, agents, category, task_created) ==
    LET data == InitialCompanyData(company_name, company_website, category)
        key  == AnalysisAgentKey(category)
        analysis_task == create_analysis_task(company_name, company_website, key, task_created)
    IN  IF category \notin {"HR", "NE_B2B"}
        THEN Frame("return",
                   [data EXCEPT !.pain_points = InvalidCategoryMessage(category)],
                   <<>>, <<>>, "invalid_category", "not_run", NoTask)
        ELSE IF ~ValidAgent(agents, key)
        THEN Frame("return",
                   [data EXCEPT !.pain_points = AgentMissingMessage(key)],
                   <<>>, <<>>, "agent_missing", "not_run", NoTask)
        ELSE IF analysis_task = NoTask
        THEN Frame("return",
                   [data EXCEPT !.pain_points = TaskCreationError],
                   <<>>, <<>>, "task_none", "not_run", NoTask)
        ELSE Frame("analysis", data, <<>>, <<>>, "running", "not_run", analysis_task)

\* a variant of HandleAnalysisException that lets the exception leave
\* analyze_company; C3_AnalysisExceptionIsolated does not hold of it
PropagateAnalysisException(data, category, exc) ==
    Frame("raise", data, <<>>, <<>>, "raised", "not_run", NoTask)

\* lines 364-371: the outer except
HandleAnalysisException(data, category, exc) ==
    Frame("return",
          [data EXCEPT !.pain_points = ExceptionMessage(category, exc),
                       !.contact_email = IF data.contact_email # <<>>
                                         THEN data.contact_email ELSE <<>>],
          <<>>, <<>>, "raised", "not_run", NoTask)

\* lines 286-288: initial_email and initial_pain_points of a parsed output
ParsedInitial(parsed_initial) ==
    [email |-> parsed_initial.email, pain_points |-> parsed_initial.pain_points,
     status |-> "parsed"]

\* lines 275-295: initial_email and initial_pain_points of a returned object
ParseInitial(object) ==
    IF ~Truthy(object)
    THEN [email |-> <<>>, pain_points |-> NoOutputObject, status |-> "no_output"]
    ELSE IF RawOutput(object) = <<>>
    THEN [email |-> <<>>, pain_points |-> NoRawOutput, status |-> "no_raw"]
    ELSE ParsedInitial(parse_analysis_results(PyStr(RawOutput(object))))

\* lines 303-308: "no_reviewer", "skipped" or "run"
ReviewGuard(reviewer_valid, initial_pain_points) ==
    IF ~reviewer_valid THEN "no_reviewer"
    ELSE IF \/ initial_pain_points = <<>>
            \/ StartsWith(initial_pain_points, InitialAnalysisFailedPrefix)
            \/ StartsWith(initial_pain_points, AnalysisFailedPrefix)
    THEN "skipped"
    ELSE "run"

\* lines 297-322: the analysis gave initial; the review guard and the
\* creation of the review task.  review_task_created is whether Task(...)
\* succeeded in create_review_task.
AfterParsedAnalysis(data, agents, category, initial, review_task_created) ==
    LET updated == [data EXCEPT !.contact_email = initial.email,
                                !.pain_points = initial.pain_points]
        guard   == ReviewGuard(ValidAgent(agents, ReviewerAgentKey(category)),
                               initial.pain_points)
        review_task == create_review_task(data.name, data.website,
                           initial.pain_points, ReviewerAgentKey(category),
                           review_task_created)
    IN  IF guard # "run"
        THEN Frame("return", updated, initial.email, initial.pain_points,
                   initial.status, guard, NoTask)
        ELSE IF review_task = NoTask
        THEN Frame("return", updated, initial.email, initial.pain_points,
                   initial.status, "task_none", NoTask)
        ELSE Frame("review", updated, initial.email, initial.pain_points,
                   initial.status, "running", review_task)

\* lines 265-322: the analysis crew has been kicked off and gave outcome
AfterAnalysis(data, agents, category, outcome, review_task_created) ==
    IF outcome.raises
    THEN HandleAnalysisException(data, category, outcome.exc)
    ELSE AfterParsedAnalysis(data, agents, category, ParseInitial(outcome),
                             review_task_created)

\* lines 344-350: the decision on the parsed review
ReviewDecision(data, reviewed_pain_points, initial_pain_points) ==
    IF /\ reviewed_pain_points # <<>>
       /\ ~StartsWith(reviewed_pain_points, AnalysisFailedPrefix)
       /\ reviewed_pain_points # initial_pain_points
    THEN [data EXCEPT !.pain_points = reviewed_pain_points]
    ELSE data

\* a variant of HandleReviewException that reports the review error in the
\* record, as the outer except does; C7_ReviewFailureKeepsAnalysis does not
\* hold of it
ReportReviewException(data, email, points, analysis) ==
    Frame("return",
          [data EXCEPT !.pain_points = <<"A","n","a","l","y","s","i","s"," ","f","a","i","l","e","d"," ","-"," ","r","e","v","i","e","w"," ","e","r","r","o","r">>,
                       !.contact_email = <<>>],
          email, points, analysis, "raised", NoTask)

\* lines 356-358: the inner except keeps the initial pain points
HandleReviewException(data, email, points, analysis) ==
    Frame("return", data, email, points, analysis, "raised", NoTask)

\* a variant of AfterReview that also takes the contact e-mail of the parsed
\* review when there is one; C29_ReviewChangesPainPointsOnly does not hold
\* of it
AfterReviewTakingEmail(data, email, points, analysis, outcome) ==
    IF outcome.raises
    THEN HandleReviewException(data, email, points, analysis)
    ELSE IF ~Truthy(outcome)
    THEN Frame("return", data, email, points, analysis, "no_output", NoTask)
    ELSE IF RawOutput(outcome) = <<>>
    THEN Frame("return", data, email, points, analysis, "no_raw", NoTask)
    ELSE Frame("return",
               [ReviewDecision(data,
                    parse_analysis_results(PyStr(RawOutput(outcome))).pain_points,
                    points)
                  EXCEPT !.contact_email =
                    IF parse_analysis_results(PyStr(RawOutput(outcome))).email # <<>>
                    THEN parse_analysis_results(PyStr(RawOutput(outcome))).email
                    ELSE data.contact_email],
               email, points, analysis, "parsed", NoTask)

\* lines 325-361: the reviewer has executed the review task and gave outcome
AfterReview(data, email, points, analysis, outcome) ==
    IF outcome.raises
    THEN HandleReviewException(data, email, points, analysis)
    ELSE IF ~Truthy(outcome)
    THEN Frame("return", data, email, points, analysis, "no_output", NoTask)
    ELSE IF RawOutput(outcome) = <<>>
    THEN Frame("return", data, email, points, analysis, "no_raw", NoTask)
    ELSE Frame("return",
               ReviewDecision(data,
                   parse_analysis_results(PyStr(RawOutput(outcome))).pain_points,
                   points),
               email, points, analysis, "parsed", NoTask)

(***************************************************************************)
(* extract_companies_from_url (company_extractor.py)                       *)
(***************************************************************************)
\* the empty string as the raw text of an extraction
EmptyText == [kind |-> "empty", items |-> <<>>]

\* a variant of extract_companies_from_url that scans text that is no
\* literal and finds a company in it; C21_ExtractionNeverFatal does not
\* hold of it
extract_companies_with_fallback(outcome) ==
    IF outcome.raises THEN <<>>
    ELSE IF outcome.type = "None" \/ (outcome.type = "str" /\ outcome.raw = EmptyText)
    THEN <<>>
    ELSE IF outcome.type \notin {"CrewOutput", "str"} \/ outcome.raw = EmptyText
    THEN <<>>
    ELSE IF outcome.raw.kind = "error"
    THEN <<[name |-> <<"A","c","m","e">>, website |-> <<"h","t","t","p","s",":","/","/","a","c","m","e",".","c","o","m","/">>]>>
    ELSE parse_company_website_list(outcome.raw)

\* lines 137-176: the company list for what extraction_crew.kickoff() gave
extract_companies_from_url(outcome) ==
    IF outcome.raises THEN <<>>
    ELSE IF outcome.type = "None" \/ (outcome.type = "str" /\ outcome.raw = EmptyText)
    THEN <<>>
    ELSE IF outcome.type \notin {"CrewOutput", "str"} \/ outcome.raw = EmptyText
    THEN <<>>
    ELSE parse_company_website_list(outcome.raw)

(***************************************************************************)
(* Bounds and inputs of the model                                          *)
(***************************************************************************)
\* the longest URL list the search is taken to return
MaxUrlListLen == 2

\* Config.MAX_URLS_TO_PROCESS as set in the environment of the modelled run
MAX_URLS_TO_PROCESS == 2

\* a source the classifier takes for HR ('hr-') and one it does not
HrSource == <<"h","t","t","p",":","/","/","h","r","-","x",".","c","o","m">>

NeSource == <<"h","t","t","p",":","/","/","n","e","-","b","i","z",".","o","r","g">>

SourceUrls == {HrSource, NeSource}

RECURSIVE SeqsUpTo(_, _)
SeqsUpTo(S, n) ==
    IF n = 0 THEN {<<>>}
    ELSE LET shorter == SeqsUpTo(S, n - 1)
         IN  shorter \cup {Append(q, x) : q \in {r \in shorter : Len(r) = n - 1}, x \in S}

\* what perform_search may return
UrlLists == SeqsUpTo(SourceUrls, MaxUrlListLen)

\* the items an extraction text may list
ItemAcme == DictItem(PyStr(<<"A","c","m","e">>), PyStr(<<"h","t","t","p","s",":","/","/","a","c","m","e",".","c","o","m","/">>))

ItemAcmeWww == DictItem(PyStr(<<"A","c","m","e","2">>), PyStr(<<"h","t","t","p","s",":","/","/","w","w","w",".","a","c","m","e",".","c","o","m">>))

ItemAcmeUpper == DictItem(PyStr(<<"A","C","M","E">>), PyStr(<<" ","h","t","t","p","s",":","/","/","A","c","m","e",".","c","o","m">>))

ItemGeneric == DictItem(PyStr(<<"T","e","s","t">>), PyStr(<<"h","t","t","p","s",":","/","/","a","c","m","e",".","c","o","m">>))

ItemNoScheme == DictItem(PyStr(<<"G","a","m","m","a">>), PyStr(<<"w","w","w",".","a","c","m","e",".","c","o","m">>))

ItemNoName == DictItem(PyNotStr, PyStr(<<"h","t","t","p","s",":","/","/","a","c","m","e",".","c","o","m">>))

\* what extraction_crew.kickoff() may give
ExtractionOutcomes ==
    { [raises |-> TRUE, type |-> "None", raw |-> EmptyText],
      [raises |-> FALSE, type |-> "None", raw |-> EmptyText],
      [raises |-> FALSE, type |-> "other", raw |-> EmptyText],
      [raises |-> FALSE, type |-> "CrewOutput", raw |-> EmptyText],
      [raises |-> FALSE, type |-> "CrewOutput", raw |-> NotALiteral],
      [raises |-> FALSE, type |-> "CrewOutput", raw |-> NonListLiteral],
      [raises |-> FALSE, type |-> "CrewOutput", raw |-> ListLiteral(<<ItemNoScheme, NotADict>>)],
      [raises |-> FALSE, type |-> "CrewOutput", raw |-> ListLiteral(<<ItemAcme, ItemAcmeWww>>)],
      [raises |-> FALSE, type |-> "CrewOutput", raw |-> ListLiteral(<<ItemAcmeUpper, ItemAcme>>)],
      [raises |-> FALSE, type |-> "str", raw |-> ListLiteral(<<ItemGeneric, ItemNoName, ItemAcme>>)] }

\* type(e).__name__ and str(e) of the exception a collaborator raises
SomeException == <<"R","u","n","t","i","m","e","E","r","r","o","r",":"," ","b","o","o","m">>

\* what analysis_crew.kickoff() may give
AnalysisOutcomes ==
    { Raises(SomeException),
      Returns("None", <<>>),
      Returns("other", <<>>),
      Returns("str", TextEmailAndPoints),
      Returns("CrewOutput", TextSkipped),
      Returns("CrewOutput", TextFailed) }

\* what reviewer_agent.execute_task(review_task) may give
ReviewOutcomes ==
    { Raises(SomeException),
      Returns("None", <<>>),
      Returns("other", <<>>),
      Returns("str", TextPoints),
      Returns("CrewOutput", TextRefined),
      Returns("CrewOutput", TextBlank),
      Returns("CrewOutput", TextSkipped),
      Returns("CrewOutput", TextFailed) }

\* the categories analyze_company may be handed: the two it knows and another
Categories == {"HR", "NE_B2B", "Other"}

AgentKeys == {"research", "hr_analysis", "hr_reviewer", "ne_b2b_analysis", "ne_b2b_reviewer"}


\* ---------------------------------------------------------------------
\* Startup: configuration, tools, LLM and agents
\* ---------------------------------------------------------------------

\* the providers LLM_PROVIDER may name; "cohere" is one that nothing supports
Providers == {"openai", "anthropic", "google", "mistralai", "ollama", "cohere"}

ApiKeys == {"SERPER_API_KEY", "OPENAI_API_KEY", "ANTHROPIC_API_KEY", "GOOGLE_API_KEY",
            "MISTRAL_API_KEY"}

\* the keys the .env file sets: all of them, all but Serper's, Serper's
\* alone, none
KeySets == {ApiKeys, ApiKeys \ {"SERPER_API_KEY"}, {"SERPER_API_KEY"}, {}}

\* what a run finds when it starts: whether the imports of main.py lines
\* 55-60 succeed, whether web_search_tool is an object, the configuration
\* read from the environment, and whether the LangChain library of the
\* provider can be imported
Environments ==
    [imports : {"ok", "ImportError", "Exception"},
     web_search_tool : {"tool", "None"},
     api_keys : KeySets,
     LLM_PROVIDER : Providers,
     library : BOOLEAN]

GoodEnvironment ==
    [imports |-> "ok", web_search_tool |-> "tool", api_keys |-> ApiKeys,
     LLM_PROVIDER |-> "anthropic", library |-> TRUE]

\* config.py lines 62-91: the names of the missing settings, in order
ProviderKey(provider) ==
    CASE provider = "openai" -> "OPENAI_API_KEY"
      [] provider = "anthropic" -> "ANTHROPIC_API_KEY"
      [] provider = "google" -> "GOOGLE_API_KEY"
      [] provider = "mistralai" -> "MISTRAL_API_KEY"
      [] OTHER -> "no key"

validate(config) ==
    LET provider == config.LLM_PROVIDER
        serper == IF "SERPER_API_KEY" \in config.api_keys THEN <<>>
                  ELSE <<"SERPER_API_KEY">>
        specific ==
            IF provider \in {"openai", "anthropic", "google", "mistralai"}
            THEN IF ProviderKey(provider) \in config.api_keys THEN <<>>
                 ELSE <<ProviderKey(provider)>>
            ELSE IF provider = "ollama" THEN <<>>
            ELSE <<"LLM_PROVIDER">>
    IN  serper \o specific

\* utils/llm_factory.py lines 14-19
SUPPORTED_PROVIDERS == {"openai", "anthropic", "google"}

\* utils/llm_factory.py lines 21-169: "llm" for a chat model instance,
\* "None" otherwise.  The openai branch reads Config.OPENAI_API_BASe
\* (line 57), an attribute Config does not have: the AttributeError is
\* caught at line 165 and None is returned.
get_llm_instance(config) ==
    LET provider == config.LLM_PROVIDER IN
    IF provider \notin SUPPORTED_PROVIDERS THEN "None"
    ELSE IF provider = "openai" THEN "None"
    ELSE IF ProviderKey(provider) \notin config.api_keys THEN "None"
    ELSE IF ~config.library THEN "None"
    ELSE "llm"

\* agents.py lines 21-173: raises when the factory gives no LLM, and
\* otherwise returns the dictionary of the agents built (agent_dict)
initialize_agents(config, agent_dict) ==
    IF get_llm_instance(config) = "None"
    THEN [raises |-> TRUE, agents |-> <<>>]
    ELSE [raises |-> FALSE, agents |-> agent_dict]

\* main.py lines 53-84: the fatal errors, by category
StartupErrorsUnlessToolMissing(env) ==
    IF env.imports = "ImportError" THEN {"Module Import"}
    ELSE IF env.imports = "Exception" THEN {"Initialization"}
    ELSE IF validate(env) # <<>> THEN {"Configuration"} ELSE {}

StartupErrors(env) ==
    IF env.imports = "ImportError" THEN {"Module Import"}
    ELSE IF env.imports = "Exception" THEN {"Initialization"}
    ELSE (IF env.web_search_tool = "None" THEN {"Tool Initialization"} ELSE {})
         \cup (IF validate(env) # <<>> THEN {"Configuration"} ELSE {})

\* ErrorCollection.has_fatal_errors (utils/logging_utils.py): some error
\* was added with fatal=True
has_fatal_errors(collector) == collector # {}

\* main.py line 137
expected_keys == {"research", "hr_analysis", "hr_reviewer", "ne_b2b_analysis", "ne_b2b_reviewer"}
(***************************************************************************)
(* The run of main.py                                                      *)
(***************************************************************************)
VARIABLES
    pc,                          \* where the script is: "startup", "main",
                                 \* "search", "url", "company", "analysis",
                                 \* "review", "done", "exited" (exit(1)),
                                 \* "crashed" (an uncaught exception), or,
                                 \* for a parser called on its own, its
                                 \* name before and "parsed_..." after
    environment,                 \* what the run finds at startup: imports,
                                 \* tools, configuration, LLM
    error_collector,             \* the fatal errors added to error_collector
    agent_output,                \* the argument of a parser called on its own
    parsed,                      \* what that parser returned
    agents,                      \* key -> whether it holds an Agent instance
    url_list,                    \* what perform_search returned
    url_index,                   \* the URL the outer loop is at (1-based)
    extracted_company_data,      \* the companies extracted from that URL
    company_index,               \* the company the inner loop is at
    processed_websites_this_run, \* the keys seen in this run
    all_processed_companies,     \* the records handed to write_to_csv
    final_company_data,          \* analyze_company: the record being built
    initial_email,               \* analyze_company: e-mail of the analysis
    initial_pain_points,         \* analyze_company: pain points of the analysis
    task,                        \* the task the next collaborator call runs
    analysis_stage,              \* what happened in the analysis stage
    review_stage,                \* what happened in the review stage
    calls                        \* the collaborator calls of the current
                                 \* analyze_company, each with what it was
                                 \* given and what it gave

vars == <<pc, environment, error_collector, agent_output, parsed, agents, url_list, url_index, extracted_company_data, company_index,
          processed_websites_this_run, all_processed_companies,
          final_company_data, initial_email, initial_pain_points, task,
          analysis_stage, review_stage, calls>>

\* the variables the processing loop leaves alone
outside_vars == <<environment, error_collector, agent_output, parsed>>

\* no parser is called on its own
NotCalled == [kind |-> "not called"]

\* a run past its startup: main.py lines 51-143 found nothing fatal
StartupPassed ==
    /\ environment = GoodEnvironment
    /\ error_collector = {}
    /\ agent_output = NotCalled
    /\ parsed = NotCalled

\* the frame variables outside of analyze_company
NoCompany == [name |-> <<>>, website |-> <<>>, pain_points |-> <<>>,
              contact_email |-> <<>>, category |-> ""]

\* initialize_agents (agents.py) returns the five agents or raises
AllAgents == [key \in AgentKeys |-> TRUE]

InitWith(agent_dict) ==
    /\ pc = "search"
    /\ StartupPassed
    /\ agents = agent_dict
    /\ url_list = <<>>
    /\ url_index = 1
    /\ extracted_company_data = <<>>
    /\ company_index = 1
    /\ processed_websites_this_run = {}
    /\ all_processed_companies = <<>>
    /\ final_company_data = NoCompany
    /\ initial_email = <<>>
    /\ initial_pain_points = <<>>
    /\ task = NoTask
    /\ analysis_stage = "not_run"
    /\ review_stage = "not_run"
    /\ calls = <<>>

\* main.py lines 128-143: the run starts with the agents initialize_agents made
Init == InitWith(AllAgents)

\* a variant of urls_to_process that takes every URL the search gave;
\* C26_ForwardProgress does not hold of it
every_url == url_list

\* urls_to_process = url_list[:Config.MAX_URLS_TO_PROCESS]
urls_to_process ==
    IF Len(url_list) <= MAX_URLS_TO_PROCESS THEN url_list
    ELSE SubSeq(url_list, 1, MAX_URLS_TO_PROCESS)

\* a variant of target_url that stays at the first URL;
\* C27_CompletionOrder does not hold of it
first_url == urls_to_process[1]

\* for i, target_url in enumerate(urls_to_process)
target_url == urls_to_process[url_index]

company_dict == extracted_company_data[company_index]

frame_vars == <<final_company_data, initial_email, initial_pain_points, task,
                analysis_stage, review_stage, calls>>

\* main.py lines 145-156: the search, then the loop or, without URLs, the end
PerformSearchWith(lists) ==
    /\ pc = "search"
    /\ \E urls \in lists :
        /\ url_list' = urls
        /\ pc' = IF urls = <<>> THEN "done" ELSE "url"
    /\ UNCHANGED <<outside_vars, agents, url_index, extracted_company_data, company_index,
                   processed_websites_this_run, all_processed_companies, frame_vars>>

PerformSearch == PerformSearchWith(UrlLists)

\* main.py lines 164-171: the result is assigned; `continue` when nothing
\* was extracted, else the inner loop
ProcessExtracted(extracted) ==
    /\ extracted_company_data' = extracted
    /\ IF extracted = <<>>
       THEN /\ url_index' = url_index + 1
            /\ UNCHANGED <<pc, company_index>>
       ELSE /\ company_index' = 1
            /\ pc' = "company"
            /\ UNCHANGED url_index

\* main.py lines 158-171: extraction for the next URL
ExtractCompanies ==
    /\ pc = "url"
    /\ url_index <= Len(urls_to_process)
    /\ \E outcome \in ExtractionOutcomes :
        ProcessExtracted(extract_companies_from_url(outcome))
    /\ UNCHANGED <<outside_vars, agents, url_list, processed_websites_this_run,
                   all_processed_companies, frame_vars>>

\* main.py lines 225-257: the loop is over; summary and CSV output
FinishRun ==
    /\ pc = "url"
    /\ url_index > Len(urls_to_process)
    /\ pc' = "done"
    /\ UNCHANGED <<outside_vars, agents, url_list, url_index, extracted_company_data, company_index,
                   processed_websites_this_run, all_processed_companies, frame_vars>>

\* a variant of AdmissionCheck that looks the website up as extracted, not
\* normalized; C14_DuplicateRejectedWithoutEffect does not hold of it
AdmissionCheckAsExtracted(company, seen) ==
    IF company.name = <<>> \/ company.website = <<>> THEN "missing"
    ELSE IF company.website \in seen THEN "duplicate"
    ELSE IF IsGenericName(company.name) THEN "generic"
    ELSE "admit"

\* main.py lines 176-196: "missing", "duplicate", "generic" (each a
\* `continue`) or "admit"
AdmissionCheck(company, seen) ==
    IF company.name = <<>> \/ company.website = <<>> THEN "missing"
    ELSE IF NormalizeWebsite(company.website) \in seen THEN "duplicate"
    ELSE IF IsGenericName(company.name) THEN "generic"
    ELSE "admit"

\* the inner loop goes to its next company or, after the last, to the next URL
NextCompany ==
    IF company_index < Len(extracted_company_data)
    THEN /\ company_index' = company_index + 1
         /\ pc' = "company"
         /\ UNCHANGED <<url_index, extracted_company_data>>
    ELSE /\ company_index' = 1
         /\ extracted_company_data' = <<>>
         /\ url_index' = url_index + 1
         /\ pc' = "url"

\* a variant of AppendCompany that keeps only the records without a failure
\* marker; C2_OneRecordPerAdmitted does not hold of it
AppendUsableCompany(companies, company_data, source_url) ==
    IF \/ StartsWith(company_data.pain_points, AnalysisFailedPrefix)
       \/ StartsWith(company_data.pain_points, AnalysisSkippedPrefix)
    THEN companies
    ELSE Append(companies, [name |-> company_data.name,
                            website |-> company_data.website,
                            pain_points |-> company_data.pain_points,
                            contact_email |-> company_data.contact_email,
                            category |-> company_data.category,
                            source_url |-> source_url])

\* main.py lines 213-215
AppendCompany(companies, company_data, source_url) ==
    Append(companies, [name |-> company_data.name,
                       website |-> company_data.website,
                       pain_points |-> company_data.pain_points,
                       contact_email |-> company_data.contact_email,
                       category |-> company_data.category,
                       source_url |-> source_url])

\* analyze_company went on to frame: it waits for a collaborator, or it
\* returned and main.py appends the record (lines 213-222), or an exception
\* left it, which nothing in main.py catches
Proceed(frame) ==
    /\ final_company_data' = frame.data
    /\ initial_email' = frame.email
    /\ initial_pain_points' = frame.points
    /\ task' = frame.task
    /\ analysis_stage' = frame.analysis
    /\ review_stage' = frame.review
    /\ IF frame.next = "return"
       THEN /\ all_processed_companies' =
                   AppendCompany(all_processed_companies, frame.data, target_url)
            /\ NextCompany
       ELSE /\ pc' = IF frame.next = "raise" THEN "crashed" ELSE frame.next
            /\ UNCHANGED <<all_processed_companies, url_index,
                           extracted_company_data, company_index>>

\* main.py lines 172-196: a company that is not analyzed
RejectCompany ==
    /\ pc = "company"
    /\ AdmissionCheck(company_dict, processed_websites_this_run) # "admit"
    /\ NextCompany
    /\ UNCHANGED <<outside_vars, agents, url_list, processed_websites_this_run,
                   all_processed_companies, frame_vars>>

\* a variant of AddWebsite that remembers the last key only;
\* C13_SeenSetGrows does not hold of it
KeepLastWebsite(seen, normalized_website) == {normalized_website}

\* main.py line 198: processed_websites_this_run.add(normalized_website)
AddWebsite(seen, normalized_website) == seen \cup {normalized_website}

\* a variant of StartAnalysis that calls analyze_company without recording
\* the key of the website; C28_OneRecordPerWebsite does not hold of it
StartAnalysisUnrecorded(category) ==
    /\ pc = "company"
    /\ AdmissionCheck(company_dict, processed_websites_this_run) = "admit"
    /\ calls' = <<>>
    /\ \E task_created \in BOOLEAN :
        Proceed(AnalyzeStart(company_dict.name, company_dict.website, agents,
                             category, task_created))
    /\ UNCHANGED <<outside_vars, agents, url_list, processed_websites_this_run>>

\* main.py lines 198 and 209: the key is recorded and analyze_company is
\* called with category; it runs up to the analysis task
StartAnalysis(category) ==
    /\ pc = "company"
    /\ AdmissionCheck(company_dict, processed_websites_this_run) = "admit"
    /\ processed_websites_this_run' =
           AddWebsite(processed_websites_this_run,
                      NormalizeWebsite(company_dict.website))
    /\ calls' = <<>>
    /\ \E task_created \in BOOLEAN :
        Proceed(AnalyzeStart(company_dict.name, company_dict.website, agents,
                             category, task_created))
    /\ UNCHANGED <<outside_vars, agents, url_list>>

\* main.py lines 198-209: an admitted company is classified and analyzed
AdmitCompany ==
    StartAnalysis(classify_company(company_dict.name, company_dict.website, target_url))

\* analyze_company lines 265-322: the analysis crew runs and gives one of
\* outcomes
AnalysisKickoffWith(outcomes) ==
    /\ pc = "analysis"
    /\ \E outcome \in outcomes, review_task_created \in BOOLEAN :
        /\ calls' = Append(calls, [to |-> "analysis", task |-> task, outcome |-> outcome])
        /\ Proceed(AfterAnalysis(final_company_data, agents,
                                 final_company_data.category, outcome,
                                 review_task_created))
    /\ UNCHANGED <<outside_vars, agents, url_list, processed_websites_this_run>>

AnalysisKickoff == AnalysisKickoffWith(AnalysisOutcomes)

\* analyze_company lines 325-361: the reviewer executes the review task
ReviewExecute ==
    /\ pc = "review"
    /\ \E outcome \in ReviewOutcomes :
        /\ calls' = Append(calls, [to |-> "review", task |-> task, outcome |-> outcome])
        /\ Proceed(AfterReview(final_company_data, initial_email,
                               initial_pain_points, analysis_stage, outcome))
    /\ UNCHANGED <<outside_vars, agents, url_list, processed_websites_this_run>>

Next ==
    \/ PerformSearch
    \/ ExtractCompanies
    \/ FinishRun
    \/ RejectCompany
    \/ AdmitCompany
    \/ AnalysisKickoff
    \/ ReviewExecute

Spec == Init /\ [][Next]_vars

\* a variant of IsSuccessfulAnalysis that tests for "Analysis failed" only;
\* C12_SummaryCounts does not hold of it
IsNotFailedAnalysis(company) ==
    ~StartsWith(company.pain_points, AnalysisFailedPrefix)

\* main.py lines 229-232: the records counted as successful analyses
IsSuccessfulAnalysis(company) ==
    /\ ~StartsWith(company.pain_points, AnalysisFailedPrefix)
    /\ ~StartsWith(company.pain_points, AnalysisSkippedPrefix)

\* main.py lines 229-232
successful_analyses == SelectSeq(all_processed_companies, IsSuccessfulAnalysis)

\* main.py line 234
hr_count ==
    Cardinality({i \in DOMAIN all_processed_companies :
                    all_processed_companies[i].category = "HR"})

\* main.py line 235
ne_b2b_count ==
    Cardinality({i \in DOMAIN all_processed_companies :
                    all_processed_companies[i].category = "NE_B2B"})

\* main.py line 236
unknown_count == Len(all_processed_companies) - hr_count - ne_b2b_count

(***************************************************************************)
(* analyze_company on its own: main.py hands it the dictionary of          *)
(* initialize_agents and a category of classify_company, but the function  *)
(* takes any dictionary and any category.  SpecAnalyze is the handling of  *)
(* one extracted company of one source URL under every dictionary that     *)
(* holds the research agent and under every category.                      *)
(***************************************************************************)
AgentDicts == {d \in [AgentKeys -> BOOLEAN] : d["research"]}

\* the companies parse_company_website_list gives for one extraction text
SomeCompanies == Range(parse_company_website_list(ListLiteral(<<ItemAcme, ItemAcmeWww>>)))

\* main.py line 172: the inner loop is at the one company extracted from
\* the one source URL
InitCompany(agent_dict, source, company) ==
    /\ pc = "company"
    /\ StartupPassed
    /\ agents = agent_dict
    /\ url_list = <<source>>
    /\ url_index = 1
    /\ extracted_company_data = <<company>>
    /\ company_index = 1
    /\ processed_websites_this_run = {}
    /\ all_processed_companies = <<>>
    /\ final_company_data = NoCompany
    /\ initial_email = <<>>
    /\ initial_pain_points = <<>>
    /\ task = NoTask
    /\ analysis_stage = "not_run"
    /\ review_stage = "not_run"
    /\ calls = <<>>

InitAnalyze ==
    \E d \in AgentDicts, source \in SourceUrls, company \in SomeCompanies :
        InitCompany(d, source, company)

\* analyze_company called with any category
AnalyzeCompany == \E category \in Categories : StartAnalysis(category)

NextAnalyze ==
    \/ AnalyzeCompany
    \/ AnalysisKickoff
    \/ ReviewExecute

SpecAnalyze == InitAnalyze /\ [][NextAnalyze]_vars


(***************************************************************************)
(* classify_company on its own: SpecClassify is the handling of one        *)
(* company under source URLs that hold an HR keyword in lower or upper     *)
(* case, inside a longer word, or not at all, and under company names and  *)
(* websites that hold one.                                                 *)
(***************************************************************************)
ClassifySources ==
    { <<"h","t","t","p","s",":","/","/","h","r","-","i","n","s","i","g","h","t","s",".","c","o","m","/","v","e","n","d","o","r","s">>,
      <<"h","t","t","p","s",":","/","/","n","e","w","e","n","g","l","a","n","d","-","b","i","z",".","o","r","g","/","l","i","s","t">>,
      <<"H","T","T","P","S",":","/","/","W","W","W",".","P","A","Y","R","O","L","L","-","N","E","W","S",".","C","O","M">>,
      <<"h","t","t","p","s",":","/","/","l","i","s","t","s",".","o","r","g","/","t","o","p","-","h","r","t","e","c","h">>,
      <<"h","t","t","p","s",":","/","/","c","h","r","-","x",".","o","r","g">>,
      <<"h","t","t","p","s",":","/","/","t","h","r",".","o","r","g","/","h","r">> }

ClassifyCompanies ==
    { [name |-> <<"A","c","m","e">>, website |-> <<"h","t","t","p","s",":","/","/","a","c","m","e",".","c","o","m","/">>],
      [name |-> <<"P","a","y","r","o","l","l"," ","P","r","o">>, website |-> <<"h","t","t","p","s",":","/","/","r","e","c","r","u","i","t","i","n","g",".","i","o">>],
      [name |-> <<"h","r","-","B","e","n","e","f","i","t","s">>, website |-> <<"h","t","t","p","s",":","/","/","h","c","m",".","c","o","m">>] }

InitClassify ==
    \E source \in ClassifySources, company \in ClassifyCompanies :
        InitCompany(AllAgents, source, company)

NextClassify ==
    \/ AdmitCompany
    \/ AnalysisKickoff
    \/ ReviewExecute

SpecClassify == InitClassify /\ [][NextClassify]_vars

\* ---------------------------------------------------------------------
\* The run from its start: module-level initialization, then __main__
\* ---------------------------------------------------------------------

\* `agents` before main.py line 134 assigns it
NoAgents == [key \in {} |-> TRUE]

\* a dictionary without the HR analysis agent, which the check of main.py
\* lines 137-139 allows for
WithoutHrAnalysis == [key \in AgentKeys \ {"hr_analysis"} |-> TRUE]

BuiltAgentDicts == {AllAgents, WithoutHrAnalysis}

InitStartup ==
    /\ pc = "startup"
    /\ environment \in Environments
    /\ error_collector = {}
    /\ agent_output = NotCalled
    /\ parsed = NotCalled
    /\ agents = NoAgents
    /\ url_list = <<>>
    /\ url_index = 1
    /\ extracted_company_data = <<>>
    /\ company_index = 1
    /\ processed_websites_this_run = {}
    /\ all_processed_companies = <<>>
    /\ final_company_data = NoCompany
    /\ initial_email = <<>>
    /\ initial_pain_points = <<>>
    /\ task = NoTask
    /\ analysis_stage = "not_run"
    /\ review_stage = "not_run"
    /\ calls = <<>>

\* main.py lines 51-89: tool imports, tool and configuration validation,
\* exit(1) on a fatal error
ImportAndValidate ==
    /\ pc = "startup"
    /\ error_collector' = error_collector \cup StartupErrors(environment)
    /\ pc' = IF has_fatal_errors(error_collector') THEN "exited" ELSE "main"
    /\ UNCHANGED <<environment, agent_output, parsed, agents, url_list, url_index,
                   extracted_company_data, company_index,
                   processed_websites_this_run, all_processed_companies, frame_vars>>

\* main.py lines 133-143: the agents are initialized and the expected keys
\* are checked; an exception is fatal
InitializeAgents ==
    /\ pc = "main"
    /\ \E agent_dict \in BuiltAgentDicts :
         LET outcome == initialize_agents(environment, agent_dict) IN
         IF outcome.raises
         THEN /\ agents' = agents
              /\ error_collector' = error_collector \cup {"Agent Initialization"}
              /\ pc' = "exited"
         ELSE /\ agents' = outcome.agents
              /\ IF expected_keys \subseteq DOMAIN outcome.agents
                 THEN /\ error_collector' = error_collector
                      /\ pc' = "search"
                 ELSE /\ error_collector' = error_collector \cup {"Agent Initialization"}
                      /\ pc' = "exited"
    /\ UNCHANGED <<environment, agent_output, parsed, url_list, url_index,
                   extracted_company_data, company_index,
                   processed_websites_this_run, all_processed_companies, frame_vars>>

NextStartup == ImportAndValidate \/ InitializeAgents \/ Next

SpecStartup == InitStartup /\ [][NextStartup]_vars

\* ---------------------------------------------------------------------
\* The list parsers called on their own
\* ---------------------------------------------------------------------

\* the longest list written into an agent output
MaxItems == 2

\* an item of a URL list as the agent writes it: a quoted string or a bare
\* number
Quoted(s) == [quoted |-> TRUE, s |-> s]

Bare(s) == [quoted |-> FALSE, s |-> s]

UrlItems ==
    { Quoted(<<"h","t","t","p","s",":","/","/","a",".","c","o","m">>),
      Quoted(<<"h","t","t","p","s",":","/","/","b",".","o","r","g","/","x",".","p","n","g">>),
      Quoted(<<"v","i","s","i","t"," ","h","t","t","p","s",":","/","/","a",".","c","o","m">>),
      Quoted(<<"h","t","t","p","f","o","o">>),
      Quoted(<<" ","h","t","t","p",":","/","/","c",".","i","o","/","p",")","."," ">>),
      Bare(<<"4","2">>) }

ItemText(item) == IF item.quoted THEN <<"'">> \o item.s \o <<"'">> ELSE item.s

RECURSIVE Join(_, _)
Join(texts, sep) ==
    IF texts = <<>> THEN <<>>
    ELSE IF Len(texts) = 1 THEN Head(texts)
    ELSE Head(texts) \o sep \o Join(Tail(texts), sep)

\* the agent writes the list as a Python list display
AsListDisplay(items) ==
    <<"[">> \o Join([k \in DOMAIN items |-> ItemText(items[k])], <<","," ">>) \o <<"]">>

\* ... or after the words "Final Answer:"
AsFinalAnswer(items) == <<"F","i","n","a","l"," ","A","n","s","w","e","r",":"," ">> \o AsListDisplay(items)

\* ... or in a sentence
AsProse(items) ==
    <<"S","e","e"," ">> \o Join([k \in DOMAIN items |-> items[k].s], <<" ","a","n","d"," ">>) \o <<".">>

UrlItemLists == SeqsUpTo(UrlItems, MaxItems)

UrlOutputs ==
    {PyNotStr}
    \cup {PyStr(AsListDisplay(items)) : items \in UrlItemLists}
    \cup {PyStr(AsFinalAnswer(items)) : items \in UrlItemLists}
    \cup {PyStr(AsProse(items)) : items \in UrlItemLists}

\* items of a company list: a name with a leading blank, a name of one
\* character, a name of 60 characters
ItemPaddedName == DictItem(PyStr(<<" ","A">>), PyStr(<<"h","t","t","p","s",":","/","/","a","c","m","e",".","c","o","m">>))

ItemShortName == DictItem(PyStr(<<"A">>), PyStr(<<"h","t","t","p","s",":","/","/","a","c","m","e",".","c","o","m">>))

ItemLongName ==
    DictItem(PyStr(<<"A","c","m","e"," ","H","u","m","a","n"," ","R","e","s","o","u","r","c","e","s"," ","a","n","d"," ","P","a","y","r","o","l","l"," ","S","e","r","v","i","c","e","s"," ","o","f"," ","N","e","w"," ","E","n","g","l","a","n","d"," ","I","n","c">>),
             PyStr(<<"h","t","t","p","s",":","/","/","a","c","m","e",".","c","o","m">>))

CompanyItems ==
    {ItemAcme, ItemAcmeUpper, ItemNoScheme, ItemNoName, NotADict,
     ItemPaddedName, ItemShortName, ItemLongName}

\* an item as the agent writes it: a dict display, or a number for what
\* is no dict or no string
ValueText(value) == IF value.isStr THEN <<"'">> \o value.s \o <<"'">> ELSE <<"7">>

CompanyItemText(item) ==
    IF item.isDict
    THEN <<"{","'","n","a","m","e","'",":"," ">> \o ValueText(item.name) \o <<","," ","'","w","e","b","s","i","t","e","'",":"," ">>
         \o ValueText(item.website) \o <<"}">>
    ELSE <<"7">>

CompanyItemLists == SeqsUpTo({Bare(CompanyItemText(item)) : item \in CompanyItems}, MaxItems)

CompanyOutputs ==
    {PyNotStr, PyStr(<<"'","A","c","m","e","'">>)}
    \cup {PyStr(AsListDisplay(items)) : items \in CompanyItemLists}
    \cup {PyStr(AsFinalAnswer(items)) : items \in CompanyItemLists}
    \cup {PyStr(AsProse(items)) : items \in CompanyItemLists}

\* texts of an analysis: the e-mail as the only pain point, the e-mail
\* alone, a label without text, a placeholder e-mail before a real one,
\* a placeholder alone, two real e-mails, no text at all
TextLoneEmailPoints == <<"P","a","i","n"," ","P","o","i","n","t","s",":"," ","i","n","f","o","@","a","c","m","e",".","i","o">>

TextLoneEmail == <<"i","n","f","o","@","a","c","m","e",".","i","o">>

TextLabelOnly == <<"F","i","n","a","l"," ","A","n","s","w","e","r",":"," ","P","a","i","n"," ","P","o","i","n","t","s",":">>

TextPlaceholderFirst == <<"E","m","a","i","l",":"," ","t","e","s","t","@","a","c","m","e",".","i","o","\n","C","o","n","t","a","c","t",":"," ","i","n","f","o","@","a","c","m","e",".","i","o">>

TextPlaceholderOnly == <<"R","e","a","c","h"," ","u","s",":"," ","h","r","@","e","x","a","m","p","l","e",".","c","o","m">>

TextTwoEmails == <<"a","@","b",".","i","o"," ","t","h","e","n"," ","c","@","d",".","o","r","g",":"," ","s","l","o","w"," ","h","i","r","i","n","g">>

TextNoDot == <<"W","r","i","t","e"," ","t","o"," ","h","r","@","a","c","m","e"," ","o","r"," ","h","r","@","a","c","m","e",".","i","o"," ","-"," ","n","o"," ","b","u","d","g","e","t">>

AnalysisTexts ==
    ModelTexts \cup {TextLoneEmailPoints, TextLoneEmail, TextLabelOnly, TextPlaceholderFirst,
                     TextPlaceholderOnly, TextTwoEmails, TextNoDot, <<>>}

AnalysisResults == {PyNotStr} \cup {PyStr(text) : text \in AnalysisTexts}

InitParse ==
    /\ \/ pc = "parse_url_list" /\ agent_output \in UrlOutputs
       \/ pc = "parse_company_website_list" /\ agent_output \in CompanyOutputs
       \/ pc = "parse_analysis_results" /\ agent_output \in AnalysisResults
    /\ parsed = NotCalled
    /\ environment = GoodEnvironment
    /\ error_collector = {}
    /\ agents = AllAgents
    /\ url_list = <<>>
    /\ url_index = 1
    /\ extracted_company_data = <<>>
    /\ company_index = 1
    /\ processed_websites_this_run = {}
    /\ all_processed_companies = <<>>
    /\ final_company_data = NoCompany
    /\ initial_email = <<>>
    /\ initial_pain_points = <<>>
    /\ task = NoTask
    /\ analysis_stage = "not_run"
    /\ review_stage = "not_run"
    /\ calls = <<>>

run_vars == <<environment, error_collector, agents, url_list, url_index,
              extracted_company_data, company_index, processed_websites_this_run,
              all_processed_companies, frame_vars>>

\* url_processor.py lines 14-59
ParseUrlList ==
    /\ pc = "parse_url_list"
    /\ parsed' = parse_url_list(agent_output)
    /\ pc' = "parsed_url_list"
    /\ UNCHANGED <<agent_output, run_vars>>

\* company_extractor.py lines 15-59
ParseCompanyWebsiteList ==
    /\ pc = "parse_company_website_list"
    /\ parsed' = IF agent_output.isStr THEN ParseCompanyText(agent_output.s) ELSE <<>>
    /\ pc' = "parsed_company_website_list"
    /\ UNCHANGED <<agent_output, run_vars>>

\* company_extractor.py lines 61-121
ParseAnalysisResults ==
    /\ pc = "parse_analysis_results"
    /\ parsed' = parse_analysis_results(agent_output)
    /\ pc' = "parsed_analysis_results"
    /\ UNCHANGED <<agent_output, run_vars>>

NextParse == ParseUrlList \/ ParseCompanyWebsiteList \/ ParseAnalysisResults

SpecParse == InitParse /\ [][NextParse]_vars

\* ---------------------------------------------------------------------
\* The run from the text of an extraction on
\* ---------------------------------------------------------------------
ScenarioSource == <<"h","r","-","d","i","r","e","c","t","o","r","y",".","c","o","m","/","l","i","s","t">>

ScenarioExtraction == <<"[","{","'","n","a","m","e","'",":"," ","'","A","c","m","e"," ","H","R","'",","," ","'","w","e","b","s","i","t","e","'",":"," ","'","h","t","t","p","s",":","/","/","a","c","m","e","-","h","r",".","c","o","m","'","}","]">>

ScenarioAnalysis == <<"E","m","a","i","l",":"," ","i","n","f","o","@","a","c","m","e","-","h","r",".","c","o","m","\n","P","a","i","n"," ","P","o","i","n","t","s",":"," ","s","c","a","l","i","n","g"," ","s","u","p","p","o","r","t"," ","s","t","a","f","f">>

\* the source URLs, the extraction texts and the analysis outcomes of the
\* runs: those of the scenario and some others
ScenarioSources == {ScenarioSource, <<"n","e","w","e","n","g","l","a","n","d","-","b","i","z",".","o","r","g","/","l","i","s","t">>}

ScenarioExtractions ==
    { ScenarioExtraction,
      <<"[","{","'","n","a","m","e","'",":"," ","'","A","c","m","e"," ","H","R","'",","," ","'","w","e","b","s","i","t","e","'",":"," ","'","h","t","t","p","s",":","/","/","a","c","m","e","-","h","r",".","c","o","m","'","}",","," ","{","'","n","a","m","e","'",":"," ","'","A","c","m","e","'",","," ","'","w","e","b","s","i","t","e","'",":"," ","'","h","t","t","p","s",":","/","/","w","w","w",".","a","c","m","e","-","h","r",".","c","o","m","/","'","}","]">>,
      <<"F","i","n","a","l"," ","A","n","s","w","e","r",":"," ","[","{","'","n","a","m","e","'",":"," ","'","T","e","s","t","'",","," ","'","w","e","b","s","i","t","e","'",":"," ","'","h","t","t","p","s",":","/","/","a","c","m","e","-","h","r",".","c","o","m","'","}",","," ","{","'","n","a","m","e","'",":"," ","'","B","e","t","a","'",","," ","'","w","e","b","s","i","t","e","'",":"," ","'","h","t","t","p","s",":","/","/","b","e","t","a",".","i","o","'","}","]">>,
      <<"N","o"," ","c","o","m","p","a","n","i","e","s"," ","o","n"," ","t","h","i","s"," ","p","a","g","e",".">> }

ScenarioAnalysisOutcomes ==
    { Returns("CrewOutput", ScenarioAnalysis),
      Returns("str", ScenarioAnalysis),
      Returns("CrewOutput", TextSkipped),
      Raises(SomeException) }

InitScenario ==
    /\ pc = "url"
    /\ environment = GoodEnvironment
    /\ error_collector = {}
    /\ agent_output \in {PyStr(text) : text \in ScenarioExtractions}
    /\ parsed = NotCalled
    /\ agents = AllAgents
    /\ url_list \in {<<source>> : source \in ScenarioSources}
    /\ url_index = 1
    /\ extracted_company_data = <<>>
    /\ company_index = 1
    /\ processed_websites_this_run = {}
    /\ all_processed_companies = <<>>
    /\ final_company_data = NoCompany
    /\ initial_email = <<>>
    /\ initial_pain_points = <<>>
    /\ task = NoTask
    /\ analysis_stage = "not_run"
    /\ review_stage = "not_run"
    /\ calls = <<>>

\* main.py lines 158-171 with an extraction crew that gives the text
\* agent_output as a CrewOutput
ExtractFromText ==
    /\ pc = "url"
    /\ url_index <= Len(urls_to_process)
    /\ ProcessExtracted(extract_companies_from_url(
           Returns("CrewOutput", CompanyLiteral(agent_output.s))))
    /\ UNCHANGED <<outside_vars, agents, url_list, processed_websites_this_run,
                   all_processed_companies, frame_vars>>

NextScenario ==
    \/ ExtractFromText
    \/ FinishRun
    \/ RejectCompany
    \/ AdmitCompany
    \/ AnalysisKickoffWith(ScenarioAnalysisOutcomes)
    \/ ReviewExecute

SpecScenario == InitScenario /\ [][NextScenario]_vars

\* ---------------------------------------------------------------------
\* The parsers called one after the other
\* ---------------------------------------------------------------------

\* the most calls in a row
MaxCalls == 3

\* the arguments of the calls
ReparseUrlOutputs ==
    {PyStr(<<"[","'","h","t","t","p","s",":","/","/","a",".","c","o","m","'",","," ","'","h","t","t","p","s",":","/","/","b",".","o","r","g","'","]">>), PyStr(<<"S","e","e"," ","h","t","t","p","s",":","/","/","a",".","c","o","m",".">>), PyNotStr}

ReparseCompanyOutputs ==
    {PyStr(ScenarioExtraction), PyStr(<<"[","{","'","n","a","m","e","'",":"," ","'","B","e","t","a","'",","," ","'","w","e","b","s","i","t","e","'",":"," ","'","h","t","t","p","s",":","/","/","b","e","t","a",".","i","o","'","}","]">>),
     PyStr(<<"N","o"," ","c","o","m","p","a","n","i","e","s"," ","o","n"," ","t","h","i","s"," ","p","a","g","e",".">>)}

ReparseAnalysisResults == {PyStr(ScenarioAnalysis), PyStr(TextPoints), PyNotStr}

\* a variant of NewList: the list the previous call of a list parser
\* returned is used again; C25_ParsingIsStateless does not hold of it
KeptList(history) ==
    IF history = <<>> \/ history[Len(history)].parser = "parse_analysis_results"
    THEN <<>>
    ELSE history[Len(history)].result

\* url_processor.py line 27 (urls = []) and company_extractor.py line 26
\* (company_data = []): the list of a call is a new, empty one, whatever
\* the calls before it (history) returned
NewList(history) == <<>>

\* the result of a call after the calls of history
ParserResult(parser, history, argument) ==
    CASE parser = "parse_url_list" -> NewList(history) \o parse_url_list(argument)
      [] parser = "parse_company_website_list" ->
            NewList(history)
            \o (IF argument.isStr THEN ParseCompanyText(argument.s) ELSE <<>>)
      [] parser = "parse_analysis_results" -> parse_analysis_results(argument)

ParserArguments(parser) ==
    CASE parser = "parse_url_list" -> ReparseUrlOutputs
      [] parser = "parse_company_website_list" -> ReparseCompanyOutputs
      [] parser = "parse_analysis_results" -> ReparseAnalysisResults

InitReparse ==
    /\ pc = "parsers"
    /\ environment = GoodEnvironment
    /\ error_collector = {}
    /\ agent_output = NotCalled
    /\ parsed = NotCalled
    /\ agents = AllAgents
    /\ url_list = <<>>
    /\ url_index = 1
    /\ extracted_company_data = <<>>
    /\ company_index = 1
    /\ processed_websites_this_run = {}
    /\ all_processed_companies = <<>>
    /\ final_company_data = NoCompany
    /\ initial_email = <<>>
    /\ initial_pain_points = <<>>
    /\ task = NoTask
    /\ analysis_stage = "not_run"
    /\ review_stage = "not_run"
    /\ calls = <<>>

\* one more call of parser; calls keeps the calls made
CallParser(parser) ==
    /\ pc = "parsers"
    /\ Len(calls) < MaxCalls
    /\ \E argument \in ParserArguments(parser) :
        /\ agent_output' = argument
        /\ parsed' = ParserResult(parser, calls, argument)
        /\ calls' = Append(calls, [parser |-> parser, argument |-> argument,
                                   result |-> ParserResult(parser, calls, argument)])
    /\ UNCHANGED <<pc, environment, error_collector, agents, url_list, url_index,
                   extracted_company_data, company_index, processed_websites_this_run,
                   all_processed_companies, final_company_data, initial_email,
                   initial_pain_points, task, analysis_stage, review_stage>>

NextReparse ==
    \/ CallParser("parse_url_list")
    \/ CallParser("parse_company_website_list")
    \/ CallParser("parse_analysis_results")

SpecReparse == InitReparse /\ [][NextReparse]_vars
(***************************************************************************)
(* The run under fair scheduling: main.py is one sequential loop, so a     *)
(* step that can be taken is taken, provided every collaborator call       *)
(* (search, extraction, analysis, review) returns or raises.  The search   *)
(* may return more URLs than MAX_URLS_TO_PROCESS.                          *)
(***************************************************************************)
\* what perform_search may return: nothing, one URL, more than the run takes
ProgressUrlLists == {<<>>, <<NeSource>>, <<HrSource, NeSource, HrSource>>}

SearchProgress == PerformSearchWith(ProgressUrlLists)

NextProgress ==
    \/ SearchProgress
    \/ ExtractCompanies
    \/ FinishRun
    \/ RejectCompany
    \/ AdmitCompany
    \/ AnalysisKickoff
    \/ ReviewExecute

\* one pass of the inner loop body for the company at company_index
HandleCompany == RejectCompany \/ AdmitCompany

\* at pc = "company" the loop body can always run: AdmissionCheck either
\* rejects or admits the company, and either way the step changes the
\* position of the loop.  Weak fairness of HandleCompany is therefore that
\* the run does not stay at pc = "company" for ever without running the body.
HandleCompanyFairly == []<>(pc # "company") \/ []<><<HandleCompany>>_vars

SpecProgress ==
    /\ Init
    /\ [][NextProgress]_vars
    /\ WF_vars(SearchProgress)
    /\ WF_vars(ExtractCompanies)
    /\ WF_vars(FinishRun)
    /\ HandleCompanyFairly
    /\ WF_vars(AnalysisKickoff)
    /\ WF_vars(ReviewExecute)


(***************************************************************************)
(* Properties.  The frame of analyze_company stays as the call left it     *)
(* until the next company is admitted, so a state after the return relates *)
(* the record appended last to the stages and the calls that made it.      *)
(***************************************************************************)
\* analyze_company is waiting for a collaborator
InWorkflow == pc \in {"analysis", "review"}

\* analyze_company has returned and its record is the last one appended
Finalized == ~InWorkflow /\ final_company_data # NoCompany

LastRecord == all_processed_companies[Len(all_processed_companies)]

\* pain points that carry a failure or skip marker
FailureMarked(pain_points) ==
    \/ StartsWith(pain_points, AnalysisFailedPrefix)
    \/ StartsWith(pain_points, AnalysisSkippedPrefix)

\* a website without "www." at its start or after its scheme and without one
\* trailing slash
BareSite(website) ==
    LET scheme_end == IF Contains(website, <<":","/","/">>)
                      THEN Find(website, <<":","/","/">>) + 2 ELSE 0
        rest    == DropFirst(website, scheme_end)
        no_www  == IF StartsWith(rest, WwwPrefix) THEN DropFirst(rest, 4) ELSE rest
        no_slash == IF EndsWith(no_www, Slash)
                    THEN Slice(no_www, 1, Len(no_www) - 1) ELSE no_www
    IN  Slice(website, 1, scheme_end) \o no_slash

\* what the analysis call of the current workflow gave, parsed
AnalysisResult == ParseInitial(calls[1].outcome)

\* the pain points parsed from what the review call gave
ReviewedPainPoints ==
    parse_analysis_results(PyStr(RawOutput(calls[2].outcome))).pain_points

\* C1: after a candidate with website W was admitted, a later candidate whose
\* website differs from W only by a "www." prefix or one trailing slash is
\* rejected and never analyzed: no two records of a run have such websites.
C1_WwwAndSlashDeduplicated ==
    \A i, j \in DOMAIN all_processed_companies :
        i < j => BareSite(all_processed_companies[i].website)
                     # BareSite(all_processed_companies[j].website)

\* C2: every admitted candidate produces exactly one record in
\* all_processed_companies, whether its analysis succeeded or failed: the
\* admitted keys and the records correspond one to one, but for the company
\* being analyzed, and no exception ends the run.
C2_OneRecordPerAdmitted ==
    /\ pc # "crashed"
    /\ Cardinality(processed_websites_this_run)
           = Len(all_processed_companies) + (IF InWorkflow THEN 1 ELSE 0)
    /\ \A key \in processed_websites_this_run :
           Cardinality({i \in DOMAIN all_processed_companies :
                           NormalizeWebsite(all_processed_companies[i].website) = key})
               = IF InWorkflow /\ key = NormalizeWebsite(final_company_data.website)
                 THEN 0 ELSE 1

\* a finished run with a failed and a successful record
C2_Witness ==
    /\ pc = "done"
    /\ Len(all_processed_companies) = 2
    /\ IsSuccessfulAnalysis(all_processed_companies[1])
    /\ all_processed_companies[2].pain_points = TaskCreationError

\* the step in which the analysis collaborator raises: the crew's kickoff, or
\* Task(...) in create_analysis_task
AnalysisRaises ==
    \/ pc = "analysis" /\ analysis_stage' = "raised"
    \/ /\ pc = "company"
       /\ processed_websites_this_run' # processed_websites_this_run
       /\ analysis_stage' = "task_none"

\* C3: an exception of the analysis collaborator never leaves
\* analyze_company: in that step the record is appended with failure-marked
\* pain points and the loop goes on to the next company or URL, and no step
\* ends the run with an exception.
C3_AnalysisExceptionIsolated ==
    [][/\ pc' # "crashed"
       /\ AnalysisRaises =>
              /\ pc' \in {"company", "url"}
              /\ Len(all_processed_companies') = Len(all_processed_companies) + 1
              /\ SubSeq(all_processed_companies', 1, Len(all_processed_companies))
                     = all_processed_companies
              /\ StartsWith(all_processed_companies'[Len(all_processed_companies')].pain_points,
                            AnalysisFailedPrefix)]_vars

\* after a record whose analysis raised, a later record finished successfully
C3_Witness ==
    /\ pc = "done"
    /\ Len(all_processed_companies) = 2
    /\ all_processed_companies[1].pain_points = ExceptionMessage("HR", SomeException)
    /\ analysis_stage = "parsed"
    /\ IsSuccessfulAnalysis(all_processed_companies[2])

\* C4: a record is counted as successful only if its analysis stage
\* succeeded, that is the analysis collaborator returned output that was
\* parsed.
C4_SuccessOnlyIfParsed ==
    Finalized /\ IsSuccessfulAnalysis(LastRecord) => analysis_stage = "parsed"

\* C5: if the review output is blank or parses to empty or failure-marked
\* pain points, the record keeps the pain points of the analysis stage.
C5_FailedReviewKeepsAnalysis ==
    /\ Finalized
    /\ review_stage = "parsed"
    /\ \/ Strip(RawOutput(calls[2].outcome)) = <<>>
       \/ ReviewedPainPoints = <<>>
       \/ FailureMarked(ReviewedPainPoints)
    => LastRecord.pain_points = initial_pain_points

\* C6: a review identical to the pain points of the analysis leaves them in
\* the record, which is then no failure marker; a review that is non-empty,
\* not failure-marked and different is adopted.
C6_ReviewDecision ==
    Finalized /\ review_stage = "parsed" =>
        /\ ReviewedPainPoints = initial_pain_points =>
               /\ LastRecord.pain_points = initial_pain_points
               /\ ~FailureMarked(LastRecord.pain_points)
        /\ /\ ReviewedPainPoints # <<>>
           /\ ~FailureMarked(ReviewedPainPoints)
           /\ ReviewedPainPoints # initial_pain_points
           => LastRecord.pain_points = ReviewedPainPoints

\* C7: when the review stage fails (no review task, the reviewer raises, or
\* it gives no output or no raw text), the record's pain_points and
\* contact_email are those the analysis stage set.
C7_ReviewFailureKeepsAnalysis ==
    Finalized /\ review_stage \in {"task_none", "raised", "no_output", "no_raw"} =>
        /\ AnalysisResult.status = "parsed"
        /\ LastRecord.pain_points = AnalysisResult.pain_points
        /\ LastRecord.contact_email = AnalysisResult.email
        /\ LastRecord.pain_points # <<>>

\* the reviewer raised and the record holds the analysis' e-mail and points
C7_Witness ==
    /\ Finalized
    /\ review_stage = "raised"
    /\ Len(calls) = 2
    /\ LastRecord.contact_email = <<"i","@","a",".","c","o">>
    /\ LastRecord.pain_points = <<"s","l","o","w"," ","h","i","r","i","n","g">>

\* C8: the reviewer is invoked only with a valid reviewer agent of the
\* category and non-empty analysis pain points without failure or skip
\* marker; otherwise the record keeps the pain points of the analysis.
C8_ReviewGuard ==
    /\ pc = "review" =>
           /\ ValidAgent(agents, ReviewerAgentKey(final_company_data.category))
           /\ initial_pain_points # <<>>
           /\ ~FailureMarked(initial_pain_points)
    /\ Finalized /\ review_stage \in {"no_reviewer", "skipped"} =>
           LastRecord.pain_points = initial_pain_points

\* C9: when the analysis stage fails (invalid category, missing agent, no
\* analysis task, or an exception), the record's pain_points begin with
\* "Analysis failed" or "Analysis skipped", its contact_email is empty and
\* the reviewer was not invoked.
C9_AnalysisFailureRecord ==
    /\ Finalized
    /\ analysis_stage \in {"invalid_category", "agent_missing", "task_none", "raised"}
    => /\ FailureMarked(LastRecord.pain_points)
       /\ LastRecord.contact_email = <<>>
       /\ review_stage = "not_run"
       /\ \A i \in DOMAIN calls : calls[i].to # "review"

\* the analysis agent of the category is missing
C9_Witness ==
    /\ Finalized
    /\ analysis_stage = "agent_missing"
    /\ ValidAgent(agents, ReviewerAgentKey(LastRecord.category))
    /\ LastRecord.pain_points = AgentMissingMessage(AnalysisAgentKey(LastRecord.category))

\* C10: in one workflow the analysis call completes before the review call,
\* the review task holds the pain points parsed from that analysis, and each
\* collaborator is called at most once.
C10_AnalysisThenReview ==
    /\ Len(calls) <= 2
    /\ \A i \in DOMAIN calls : calls[i].to = (IF i = 1 THEN "analysis" ELSE "review")
    /\ pc = "analysis" => calls = <<>>
    /\ pc = "review" =>
           /\ Len(calls) = 1
           /\ ~calls[1].outcome.raises
           /\ task.initial_pain_points = AnalysisResult.pain_points
    /\ Len(calls) = 2 =>
           /\ ~calls[1].outcome.raises
           /\ calls[1].task.agent = AnalysisAgentKey(final_company_data.category)
           /\ calls[2].task.agent = ReviewerAgentKey(final_company_data.category)
           /\ calls[2].task.initial_pain_points = AnalysisResult.pain_points

\* both collaborators were called and the review was parsed
C10_Witness ==
    /\ Finalized
    /\ Len(calls) = 2
    /\ review_stage = "parsed"
    /\ calls[2].task.initial_pain_points = <<"s","l","o","w"," ","h","i","r","i","n","g">>
    /\ LastRecord.pain_points = <<"h","i","g","h"," ","c","h","u","r","n">>

\* C11: classify_company is decided by the source URL alone: a record is
\* "HR" iff its lower-cased source URL contains one of the HR keywords and
\* "NE_B2B" otherwise, whatever its name and website; a source with
\* "hr-insights.com" gives HR and one with "newengland-biz.org" NE_B2B.
C11_ClassifiedBySource ==
    \A i \in DOMAIN all_processed_companies :
        LET record == all_processed_companies[i]
        IN  /\ record.category \in {"HR", "NE_B2B"}
            /\ record.category = "HR" <=>
                   \E keyword \in hr_keywords :
                       Contains(Lower(record.source_url), keyword)
            /\ Contains(record.source_url, <<"h","r","-","i","n","s","i","g","h","t","s",".","c","o","m">>) => record.category = "HR"
            /\ Contains(record.source_url, <<"n","e","w","e","n","g","l","a","n","d","-","b","i","z",".","o","r","g">>)
                   => record.category = "NE_B2B"

\* a company with HR keywords in its name and website, found at a source
\* without one, is NE_B2B
C11_Witness ==
    /\ Finalized
    /\ LastRecord.name = <<"P","a","y","r","o","l","l"," ","P","r","o">>
    /\ LastRecord.source_url = <<"h","t","t","p","s",":","/","/","t","h","r",".","o","r","g","/","h","r">>
    /\ LastRecord.category = "NE_B2B"

\* C12: in the summary at the end of the run a record is counted as
\* successful iff its pain_points begin with neither "Analysis failed" nor
\* "Analysis skipped"; the successful count is at most the total, and the
\* HR, NE_B2B and unknown counts are counts that sum to the total.
C12_SummaryCounts ==
    pc = "done" =>
        /\ \A i \in DOMAIN all_processed_companies :
               all_processed_companies[i] \in Range(successful_analyses)
                   <=> ~FailureMarked(all_processed_companies[i].pain_points)
        /\ Len(successful_analyses)
               = Cardinality({i \in DOMAIN all_processed_companies :
                                 ~FailureMarked(all_processed_companies[i].pain_points)})
        /\ Len(successful_analyses) <= Len(all_processed_companies)
        /\ unknown_count >= 0
        /\ hr_count + ne_b2b_count + unknown_count = Len(all_processed_companies)

\* a finished run of an HR and an NE_B2B record, one of them skip-marked
C12_Witness ==
    /\ pc = "done"
    /\ hr_count = 1
    /\ ne_b2b_count = 1
    /\ Len(successful_analyses) = 1
    /\ \E i \in DOMAIN all_processed_companies :
           StartsWith(all_processed_companies[i].pain_points, AnalysisSkippedPrefix)

\* C13: processed_websites_this_run only grows: every step leaves it equal
\* to or a superset of what it was, and no key is removed.
C13_SeenSetGrows ==
    [][processed_websites_this_run \subseteq processed_websites_this_run']_vars

\* a second key has been added to the first
C13_Witness ==
    /\ Cardinality(processed_websites_this_run) = 2
    /\ Len(all_processed_companies) = 2

\* the inner loop is at a candidate whose key is in the seen-set
DuplicateCandidate ==
    /\ pc = "company"
    /\ company_dict.name # <<>>
    /\ company_dict.website # <<>>
    /\ NormalizeWebsite(company_dict.website) \in processed_websites_this_run

\* C14: rejecting a candidate whose key is already in the seen-set leaves
\* the seen-set and the result collection as they were and invokes neither
\* the classifier nor a collaborator: the frame of analyze_company and its
\* calls do not change and the loop goes to the next candidate.
C14_DuplicateRejectedWithoutEffect ==
    [][DuplicateCandidate =>
          /\ processed_websites_this_run' = processed_websites_this_run
          /\ all_processed_companies' = all_processed_companies
          /\ UNCHANGED frame_vars
          /\ pc' \in {"company", "url"}]_vars

\* the candidate at hand has the key of the record made before it, under a
\* website written differently
C14_Witness ==
    /\ DuplicateCandidate
    /\ Len(all_processed_companies) = 1
    /\ company_dict.website # all_processed_companies[1].website
    /\ NormalizeWebsite(company_dict.website)
           = NormalizeWebsite(all_processed_companies[1].website)

\* the inner loop is at a candidate with a name and a website
CandidateAtHand ==
    /\ pc = "company"
    /\ company_dict.name # <<>>
    /\ company_dict.website # <<>>

\* C15: a candidate whose lower-cased name is in GENERIC_COMPANY_NAMES is
\* not analyzed, does not get into the result collection and does not add
\* its key to the seen-set, so that a later candidate with a new key and a
\* name that is not generic is admitted: its key is added and it is
\* analyzed.
C15_GenericNameNotAnalyzed ==
    [][/\ CandidateAtHand /\ Lower(company_dict.name) \in GENERIC_COMPANY_NAMES =>
              /\ processed_websites_this_run' = processed_websites_this_run
              /\ all_processed_companies' = all_processed_companies
              /\ UNCHANGED frame_vars
       /\ /\ CandidateAtHand
          /\ Lower(company_dict.name) \notin GENERIC_COMPANY_NAMES
          /\ NormalizeWebsite(company_dict.website) \notin processed_websites_this_run
          => /\ NormalizeWebsite(company_dict.website) \in processed_websites_this_run'
             /\ final_company_data'.name = company_dict.name
             /\ final_company_data'.website = company_dict.website
       /\ \A i \in DOMAIN all_processed_companies' :
              Lower(all_processed_companies'[i].name) \notin GENERIC_COMPANY_NAMES]_vars

\* a company is being analyzed whose website a candidate with a generic
\* name had before it in the same extraction
C15_Witness ==
    /\ InWorkflow
    /\ company_index = 2
    /\ Lower(extracted_company_data[1].name) \in GENERIC_COMPANY_NAMES
    /\ NormalizeWebsite(extracted_company_data[1].website)
           = NormalizeWebsite(final_company_data.website)
    /\ all_processed_companies = <<>>

\* what the run found wrong at startup, as C16 lists it: a tool import
\* failed, the web search tool is missing, a required configuration key
\* is missing, or the LLM (and with it the agents) cannot be initialized
FatalStartupError ==
    \/ environment.imports # "ok"
    \/ environment.web_search_tool = "None"
    \/ validate(environment) # <<>>
    \/ get_llm_instance(environment) = "None"

\* C16: a run that finds a fatal startup error never gets past its
\* startup: it performs no search, extracts no company, calls no analysis
\* or review, holds no record and never reaches the end of the run, where
\* the CSV is written.
C16_FatalStartupAborts ==
    FatalStartupError =>
        /\ pc \in {"startup", "main", "exited"}
        /\ url_list = <<>>
        /\ extracted_company_data = <<>>
        /\ processed_websites_this_run = {}
        /\ all_processed_companies = <<>>
        /\ calls = <<>>
        /\ final_company_data = NoCompany

\* a run with a web search tool and every import in place has exited
\* because the LLM could not be initialized
C16_Witness ==
    /\ pc = "exited"
    /\ environment.imports = "ok"
    /\ environment.web_search_tool = "tool"
    /\ validate(environment) = <<>>
    /\ get_llm_instance(environment) = "None"
    /\ error_collector = {"Agent Initialization"}

NoStrictUrl(potential_list) ==
    \/ potential_list.kind # "list"
    \/ \A k \in DOMAIN potential_list.items :
          ~(potential_list.items[k].isStr
            /\ StartsWith(Strip(potential_list.items[k].s), HttpPrefix))

\* C18: when the strict parse of the text fails or gives no valid URL,
\* parse_url_list returns the regex scan of the text.
C18_FallbackWhenNoStrictUrl ==
    (pc = "parsed_url_list" /\ agent_output.isStr
     /\ NoStrictUrl(literal_eval(CleanFinalAnswer(agent_output.s))))
        => parsed = RegexUrls(CleanFinalAnswer(agent_output.s))

HttpScheme(url) == StartsWith(url, <<"h","t","t","p",":","/","/">>) \/ StartsWith(url, <<"h","t","t","p","s",":","/","/">>)

\* C19: every URL parse_url_list returns begins with http:// or https://
\* and does not end with an asset extension.
C19_ReturnedUrlsArePages ==
    pc = "parsed_url_list" =>
        \A k \in DOMAIN parsed : HttpScheme(parsed[k]) /\ ~IsAsset(parsed[k])

\* C20: every company parse_company_website_list returns has a name of
\* more than 1 and fewer than 60 characters and a website that starts
\* with http.
C20_ReturnedCompaniesWellFormed ==
    pc = "parsed_company_website_list" =>
        \A k \in DOMAIN parsed :
            /\ 1 < Len(parsed[k].name)
            /\ Len(parsed[k].name) < 60
            /\ StartsWith(parsed[k].website, HttpPrefix)

\* an extraction that fails: the collaborator raises, gives no string or
\* CrewOutput, or gives text that is no list literal
ExtractionFails(outcome) ==
    \/ outcome.raises
    \/ outcome.type \notin {"CrewOutput", "str"}
    \/ outcome.raw.kind # "list"

\* C21: a failing extraction gives the empty list, and the step of the run
\* that extracts for a source URL never ends the run: it either enters the
\* inner loop with the companies of an extraction that did not fail, or
\* moves on to the next source URL and changes nothing else.
C21_ExtractionNeverFatal ==
    [][(pc = "url" /\ url_index <= Len(urls_to_process)) =>
        /\ \A outcome \in ExtractionOutcomes :
              ExtractionFails(outcome) => extract_companies_from_url(outcome) = <<>>
        /\ pc' \in {"url", "company"}
        /\ pc' = "url" =>
              /\ url_index' = url_index + 1
              /\ extracted_company_data' = <<>>
              /\ UNCHANGED <<url_list, all_processed_companies,
                             processed_websites_this_run, calls>>
        /\ pc' = "company" =>
              /\ url_index' = url_index
              /\ \E outcome \in ExtractionOutcomes :
                    /\ ~ExtractionFails(outcome)
                    /\ extracted_company_data' = extract_companies_from_url(outcome)]_vars

\* the extraction for the first source URL gave nothing and the run is at
\* the second source URL
C21_Witness ==
    /\ pc = "url"
    /\ url_index = 2
    /\ url_index <= Len(urls_to_process)
    /\ extracted_company_data = <<>>
    /\ all_processed_companies = <<>>

\* the narrative parse_analysis_results extracts from a text before any
\* substitution: the text under the first label, else the text after the
\* e-mail, else the whole text
Narrative(result, email) ==
    IF PainStarts(result) # {}
    THEN Strip(StripLineMarkup(Strip(FirstPainBody(result))))
    ELSE IF email # <<>> /\ Contains(result, email)
    THEN Strip(StripLineMarkup(Strip(StripLeadingLabel(Strip(AfterFirst(result, email))))))
    ELSE Strip(result)

\* the text without the e-mail
Residual(result, email) ==
    IF email # <<>> THEN Strip(RemoveAll(result, email)) ELSE Strip(result)

NarrativeIsEmpty(narrative, email) ==
    narrative = <<>> \/ (email # <<>> /\ narrative = email)

SubstituteFor(residual) ==
    IF Len(residual) > 10 THEN residual ELSE NoPainPointsSentinel

\* C22: for a string, the pain points returned are never empty, and when
\* the narrative is empty or the e-mail alone they are the residual text
\* if that is longer than 10 characters and the sentinel otherwise.
C22_NeverEmptyPainPoints ==
    (pc = "parsed_analysis_results" /\ agent_output.isStr) =>
        /\ parsed.pain_points # <<>>
        /\ NarrativeIsEmpty(Narrative(StripFinalAnswer(agent_output.s), parsed.email),
                            parsed.email)
             => parsed.pain_points
                  = SubstituteFor(Residual(StripFinalAnswer(agent_output.s), parsed.email))

\* the placeholder tokens as C23 lists them, looked for in any case
PlaceholderTokens ==
    { <<"e","x","a","m","p","l","e",".","c","o","m">>, <<"t","e","s","t">>, <<"e","r","r","o","r">>, <<"y","o","u","r","d","o","m","a","i","n",".","c","o","m">>, <<"e","m","a","i","l","@">>, <<"s","e","n","t","r","y",".","i","o">> }

IsPlaceholder(e) == \E token \in PlaceholderTokens : Contains(Lower(e), token)

\* an e-mail-shaped text with a dot in its domain part and no placeholder
Acceptable(e) == Contains(AfterFirst(e, <<"@">>), <<".">>) /\ ~IsPlaceholder(e)

\* the first acceptable one of the e-mail-shaped substrings, in text
\* order, or the empty string
FirstAcceptable(matches) ==
    IF \E k \in DOMAIN matches : Acceptable(matches[k])
    THEN matches[Min({k \in DOMAIN matches : Acceptable(matches[k])})]
    ELSE <<>>

\* C23: for a string, the e-mail returned is the first e-mail-shaped
\* substring of the text with a dot in its domain part and without a
\* placeholder token, or the empty string when there is none; it is
\* never a placeholder.
C23_FirstValidEmail ==
    (pc = "parsed_analysis_results" /\ agent_output.isStr) =>
        /\ parsed.email = FirstAcceptable(EmailMatchesFrom(StripFinalAnswer(agent_output.s), 1))
        /\ ~IsPlaceholder(parsed.email)

\* a text with a placeholder e-mail before a real one was parsed, and the
\* real one was returned
C23_Witness ==
    /\ pc = "parsed_analysis_results"
    /\ agent_output = PyStr(TextPlaceholderFirst)
    /\ parsed.email = <<"i","n","f","o","@","a","c","m","e",".","i","o">>

\* the run of the scenario: its source URL and its extraction text
InScenario == url_list = <<ScenarioSource>> /\ agent_output = PyStr(ScenarioExtraction)

\* the analysis collaborator returned the text of the scenario
ScenarioAnalysisReturned ==
    /\ calls # <<>>
    /\ ~calls[1].outcome.raises
    /\ calls[1].outcome.raw = ScenarioAnalysis

\* the steps of the scenario up to the parsed analysis: one candidate,
\* classified HR, e-mail and pain points as parsed
ScenarioSteps ==
    /\ pc \in {"company", "analysis", "review"}
          => extracted_company_data = <<[name |-> <<"A","c","m","e"," ","H","R">>, website |-> <<"h","t","t","p","s",":","/","/","a","c","m","e","-","h","r",".","c","o","m">>]>>
    /\ final_company_data # NoCompany
          => /\ final_company_data.name = <<"A","c","m","e"," ","H","R">>
             /\ final_company_data.category = "HR"
    /\ ScenarioAnalysisReturned
          => /\ initial_email = <<"i","n","f","o","@","a","c","m","e","-","h","r",".","c","o","m">>
             /\ initial_pain_points = <<"s","c","a","l","i","n","g"," ","s","u","p","p","o","r","t"," ","s","t","a","f","f">>

\* C24: in the run of the scenario, the extraction gives the one candidate
\* Acme HR, it is classified HR, the analysis text is parsed into the
\* e-mail info@acme-hr.com and the pain points "scaling support staff",
\* and the record is finalized as a successful one with that e-mail.
C24_EndToEndScenario ==
    InScenario =>
        /\ ScenarioSteps
        /\ (ScenarioAnalysisReturned /\ Finalized)
              => /\ Len(all_processed_companies) = 1
                 /\ LastRecord.contact_email = <<"i","n","f","o","@","a","c","m","e","-","h","r",".","c","o","m">>
                 /\ IsSuccessfulAnalysis(LastRecord)

InCompanyLoop == pc \in {"company", "analysis", "review"}

\* url_index moves by one and only when a source is finished: extraction
\* gave nothing, or the last of its companies was handled
OneSourceAtATime ==
    \/ url_index' = url_index
    \/ /\ url_index' = url_index + 1
       /\ pc' = "url"
       /\ \/ pc = "url" /\ extracted_company_data' = <<>>
          \/ InCompanyLoop /\ company_index = Len(extracted_company_data)

\* company_index moves by one within a source and starts at 1 in the next
OneCompanyAtATime ==
    \/ company_index' = company_index
    \/ company_index' = company_index + 1 /\ pc' = "company" /\ InCompanyLoop
    \/ company_index' = 1 /\ pc' \in {"url", "company"}

\* C26: with every collaborator call returning or raising, the run takes
\* at most the first MAX_URLS_TO_PROCESS source URLs, one after the other and
\* each once, handles each extracted company once, and always comes to the
\* end of execution with every taken URL processed
C26_ForwardProgress ==
    /\ <>(pc = "done")
    /\ [](url_index <= MAX_URLS_TO_PROCESS + 1)
    /\ [](InCompanyLoop => /\ url_index \in 1..MAX_URLS_TO_PROCESS
                           /\ target_url = url_list[url_index]
                           /\ company_index \in 1..Len(extracted_company_data))
    /\ [](pc = "done" => url_index = Len(urls_to_process) + 1)
    /\ [][OneSourceAtATime /\ OneCompanyAtATime]_vars

\* the search gave more URLs than the run takes; the run ended after the
\* first MAX_URLS_TO_PROCESS of them, with records made on the way
C26_Witness ==
    /\ pc = "done"
    /\ Len(url_list) > MAX_URLS_TO_PROCESS
    /\ url_index = MAX_URLS_TO_PROCESS + 1
    /\ all_processed_companies # <<>>
    /\ \E i \in 1..Len(all_processed_companies) :
          StartsWith(all_processed_companies[i].pain_points, AnalysisFailedPrefix)


(***************************************************************************)
(* C27                                                                     *)
(***************************************************************************)
\* position <<source, candidate>> a comes before position b in the loops
Before(a, b) == a[1] < b[1] \/ (a[1] = b[1] /\ a[2] < b[2])

LoopPosition == <<url_index, company_index>>

\* the step appends one record, made for the candidate at LoopPosition,
\* and leaves the records before it as they are
AppendsCurrentCandidate ==
    /\ Len(all_processed_companies') = Len(all_processed_companies) + 1
    /\ SubSeq(all_processed_companies', 1, Len(all_processed_companies))
           = all_processed_companies
    /\ LET record == all_processed_companies'[Len(all_processed_companies')]
       IN  /\ record.source_url = url_list[url_index]
           /\ record.name = extracted_company_data[company_index].name
           /\ record.website = extracted_company_data[company_index].website
    /\ Before(LoopPosition, LoopPosition')

\* C27: a step leaves all_processed_companies as it is or appends to it
\* the record of the candidate the loops are at, and the loops only move
\* forward through the sources and, within a source, the candidates; so the
\* records stand in the order of sources and candidates, and none is ever
\* removed or moved
C27_CompletionOrder ==
    [][/\ \/ all_processed_companies' = all_processed_companies
          \/ AppendsCurrentCandidate
       /\ LoopPosition' = LoopPosition \/ Before(LoopPosition, LoopPosition')]_vars

\* records of two different sources, the first source's record first
C27_Witness ==
    /\ Len(all_processed_companies) >= 2
    /\ Len(url_list) = 2
    /\ url_list[1] # url_list[2]
    /\ all_processed_companies[1].source_url = url_list[1]
    /\ all_processed_companies[2].source_url = url_list[2]


(***************************************************************************)
(* C28                                                                     *)
(***************************************************************************)
\* the keys of the records made so far
RecordKeys ==
    {NormalizeWebsite(all_processed_companies[i].website) :
        i \in 1..Len(all_processed_companies)}

\* the company at company_index has a website that is already a key
Reappears ==
    /\ pc = "company"
    /\ company_dict.name # <<>>
    /\ company_dict.website # <<>>
    /\ NormalizeWebsite(company_dict.website) \in processed_websites_this_run

\* C28: the records have pairwise different normalized website keys, each
\* of them in processed_websites_this_run; the key of a company is there
\* while its analysis and review run; and a company whose key is there
\* already is passed over: no collaborator is called and no record is made
C28_OneRecordPerWebsite ==
    /\ [](\A i, j \in 1..Len(all_processed_companies) :
            NormalizeWebsite(all_processed_companies[i].website)
              = NormalizeWebsite(all_processed_companies[j].website) => i = j)
    /\ [](RecordKeys \subseteq processed_websites_this_run)
    /\ [](pc \in {"analysis", "review"} =>
            NormalizeWebsite(final_company_data.website) \in processed_websites_this_run)
    /\ [][Reappears => /\ pc' \in {"company", "url"}
                       /\ UNCHANGED <<all_processed_companies, calls,
                                      processed_websites_this_run>>]_vars

\* the analysis of a website failed under the first source; the website
\* came again as the first candidate of the second source and was passed
\* over, the loop now being at the second candidate
C28_Witness ==
    /\ pc = "company"
    /\ url_index = 2
    /\ company_index = 2
    /\ Len(all_processed_companies) = 1
    /\ StartsWith(all_processed_companies[1].pain_points, AnalysisFailedPrefix)
    /\ all_processed_companies[1].source_url = url_list[1]
    /\ NormalizeWebsite(extracted_company_data[1].website) \in RecordKeys
    /\ extracted_company_data[1].name # <<>>


(***************************************************************************)
(* C29                                                                     *)
(***************************************************************************)
\* a and b are the same but, at most, for their pain_points
SameButPainPoints(a, b) ==
    /\ a.name = b.name
    /\ a.website = b.website
    /\ a.category = b.category
    /\ a.contact_email = b.contact_email

\* C29: while the review runs the record holds what the analysis stage
\* gave, and the step in which the reviewer returns or raises ends the
\* workflow with a record, the one appended, whose name, website, category
\* and contact_email are as they were
C29_ReviewChangesPainPointsOnly ==
    /\ [](pc = "review" => /\ final_company_data.contact_email = initial_email
                           /\ final_company_data.pain_points = initial_pain_points)
    /\ [][pc = "review" =>
            /\ pc' \in {"company", "url"}
            /\ SameButPainPoints(final_company_data', final_company_data)
            /\ final_company_data'.pain_points
                 \in {initial_pain_points,
                      parse_analysis_results(
                          PyStr(calls'[Len(calls')].outcome.raw)).pain_points}
            /\ Len(all_processed_companies') = Len(all_processed_companies) + 1
            /\ SameButPainPoints(all_processed_companies'[Len(all_processed_companies')],
                                 final_company_data)
            /\ all_processed_companies'[Len(all_processed_companies')].pain_points
                 = final_company_data'.pain_points]_vars

\* the reviewer gave refined pain points with an e-mail address of its
\* own; the record took the pain points and kept the e-mail of the analysis
C29_Witness ==
    /\ Finalized
    /\ review_stage = "parsed"
    /\ calls # <<>>
    /\ calls[Len(calls)].to = "review"
    /\ calls[Len(calls)].outcome.raw = TextRefined
    /\ parse_analysis_results(PyStr(TextRefined)).email # <<>>
    /\ parse_analysis_results(PyStr(TextRefined)).email # initial_email
    /\ final_company_data.contact_email = initial_email
    /\ initial_email # <<>>
    /\ final_company_data.pain_points # initial_pain_points
    /\ LastRecord.contact_email = initial_email


(***************************************************************************)
(* C30                                                                     *)
(***************************************************************************)
\* the start-up found nothing fatal: the imports succeeded, the search tool
\* is there and Config.validate accepted the provider and found its key;
\* and the LangChain library of the provider can be imported
AcceptedWithLibrary(env) == StartupErrors(env) = {} /\ env.library

\* C30: get_llm_instance gives None or a chat model, and for a provider that
\* Config.validate accepts, with its key set and its library importable, it
\* gives a chat model, so that initialize_agents does not raise and the run
\* is not ended for want of an LLM
C30_LlmForAcceptedProvider ==
    /\ get_llm_instance(environment) \in {"llm", "None"}
    /\ (pc \notin {"startup"} /\ AcceptedWithLibrary(environment))
          => /\ get_llm_instance(environment) = "llm"
             /\ ~initialize_agents(environment, AllAgents).raises
             /\ (pc = "exited" => agents # NoAgents)

====
